---- MODULE Spec2Model ----
(***************************************************************************)
(* Transaction / Query lifecycle engine of the Hedera Rust SDK.            *)
(*                                                                         *)
(*   src/src/transaction/transaction.rs   Transaction<T, S>                *)
(*   src/src/transaction_crypto_transfer.rs                                *)
(*   src/src/query/query.rs               Query<T>                         *)
(*                                                                         *)
(*   src/src/id.rs, src/src/transaction_id.rs   text forms of the ids      *)
(*                                                                         *)
(* The specifications share the module: SpecTransaction drives one         *)
(* Transaction value through its public methods, SpecQuery drives one      *)
(* Query value through get() and cost(), one transport round trip a step,  *)
(* SpecPayment adds payment(), SpecText formats and parses ids,            *)
(* SpecRemote drives either value, SpecShared interleaves a Transaction    *)
(* and a Query derived from one Client.                                    *)
(***************************************************************************)
EXTENDS Integers, Sequences, FiniteSets, TLC

VARIABLES
    tx,        \* the Transaction value (secret + TransactionKind)
    t_last,    \* the last method call on tx: name, state before, result, remote calls
    t_wire,    \* remote calls made by Transaction::execute, in order
    t_signed,  \* keys of the explicit sign calls made on tx, in call order
    t_setters, \* number of setter calls made on tx
    abort,     \* panic message after an abort (None while running)
    overflow_checks, \* build profile: arithmetic overflow panics (debug) or wraps
    q,         \* the Query value
    q_pc,      \* position of the caller: "idle", "get", "cost"
    q_sent,    \* requests sent by the current get()/cost() call, in order
    q_recv,    \* responses received by the current call, in order
    q_sleeps,  \* sleep durations (seconds) of the current call, in order
    q_result,  \* result of the last finished get()/cost() call
    q_calls,   \* number of get()/cost() calls started on q
    q_start,   \* the current (or last) call: its method and q when it started
    conv,      \* the last text conversion: operation, input, output
    the_client \* the Client the values were derived from

tvars == <<tx, t_last, t_wire, t_signed, t_setters>>
qvars == <<q, q_pc, q_sent, q_recv, q_sleeps, q_result, q_calls, q_start>>
vars == <<tx, t_last, t_wire, t_signed, t_setters, abort, overflow_checks,
          q, q_pc, q_sent, q_recv, q_sleeps, q_result, q_calls, q_start, conv,
          the_client>>

----------------------------------------------------------------------------
(* Option<T> as a sequence of length <= 1 *)
None == <<>>
Some(v) == <<v>>
IsSome(o) == o # <<>>
IsNone(o) == o = <<>>
Unwrap(o) == o[1]

----------------------------------------------------------------------------
(* Bounds of the model *)

\* explicit sign calls per transaction
MaxSigns == 3
\* setter calls (memo/operator/node/fee/generate_record/transfer) per transaction
MaxSetterCalls == 1
\* get()/cost() calls on one Query value
MaxCalls == 2
\* u64/i64 are modelled as WordBits-bit words (two's complement)
WordBits == 3
\* shard, realm and account numbers of the ids that are formatted: 0..MaxNum
MaxNum == 11
\* separator-delimited components of the texts that are parsed
MaxParts == 4
MaxSharedSigns == 1
MaxSharedCalls == 1

Pow2(n) == 2 ^ n
U64Max == Pow2(WordBits) - 1
I64Max == Pow2(WordBits - 1) - 1
I64Min == 0 - Pow2(WordBits - 1)

----------------------------------------------------------------------------
(* Input domains *)

AccountIdNew(shard, realm, account) ==
    [shard |-> shard, realm |-> realm, account |-> account]

OperatorId == AccountIdNew(0, 0, 2)
NodeId == AccountIdNew(0, 0, 3)
OtherId == AccountIdNew(0, 0, 4)

OperatorKey == "operator_key"
Keys == {OperatorKey, "key_a", "key_b"}

\* wall-clock readings (seconds) available to Timestamp::now()
Nows == {100}

\* TransactionBody_oneof_data variants; the last has no arm in execute
DispatchedKinds ==
    {"cryptoCreateAccount", "cryptoTransfer", "cryptoDeleteClaim", "cryptoDelete",
     "fileCreate", "fileAppend", "contractCreateInstance"}
Kinds == DispatchedKinds \cup {"cryptoUpdateAccount"}

PreCheckCodes == {"Ok", "Busy", "InvalidTransaction", "InsufficientFee"}

----------------------------------------------------------------------------
(* Results and errors *)

Ok(v) == [ok |-> TRUE, val |-> v]
Err(e) == [ok |-> FALSE, err |-> e]

MissingField(name) == [kind |-> "MissingField", field |-> name]
PreCheck(code) == [kind |-> "PreCheck", code |-> code]
TransportError == [kind |-> "Transport"]

\* panic messages
PanicExecuted == "transaction already executed"
PanicSigned == "cannot edit a transaction after it has been signed"
PanicUnreachable == "internal error: entered unreachable code"
PanicUnwrapNone == "called Option::unwrap on a None value"
PanicUnimplemented == "not yet implemented"
PanicNegOverflow == "attempt to negate with overflow"

----------------------------------------------------------------------------
(* Identifiers *)

ValidStartBackdate == 5
ValidDuration == 120
DefaultFee == 10

\* Timestamp - seconds (whole seconds; saturating at the epoch)
TimestampSub(t, secs) == IF t >= secs THEN t - secs ELSE 0

TransactionIdNew(account_id, now) ==
    [account_id |-> account_id,
     transaction_valid_start |-> TimestampSub(now, ValidStartBackdate)]

----------------------------------------------------------------------------
(* Text forms of the ids; a text is a sequence of characters *)

ParseIntError == [kind |-> "ParseInt"]
InvalidID == [kind |-> "InvalidID"]
ParseError(expected) == [kind |-> "Parse", expected |-> expected]

DigitChars == <<"0", "1", "2", "3", "4", "5", "6", "7", "8", "9">>
IsDigit(c) == \E d \in 0..9 : DigitChars[d + 1] = c
DigitValue(c) == CHOOSE d \in 0..9 : DigitChars[d + 1] = c

RECURSIVE DecimalText(_)
\* Display of an i64: decimal digits, "-" in front of a negative number
DecimalText(n) ==
    IF n < 0 THEN <<"-">> \o DecimalText(0 - n)
    ELSE IF n < 10 THEN <<DigitChars[n + 1]>>
    ELSE DecimalText(n \div 10) \o <<DigitChars[(n % 10) + 1]>>

RECURSIVE DigitsValue(_)
DigitsValue(ds) ==
    IF ds = <<>> THEN 0
    ELSE DigitsValue(SubSeq(ds, 1, Len(ds) - 1)) * 10 + DigitValue(ds[Len(ds)])

\* str::parse::<i64>: an optional sign and at least one digit, nothing else
ParseI64(text) ==
    LET signed == text # <<>> /\ text[1] \in {"+", "-"}
        ds == IF signed THEN Tail(text) ELSE text
    IN  IF ds = <<>> \/ \E i \in 1..Len(ds) : ~IsDigit(ds[i])
        THEN Err(ParseIntError)
        ELSE Ok(IF signed /\ text[1] = "-" THEN 0 - DigitsValue(ds) ELSE DigitsValue(ds))

RECURSIVE Split(_, _)
\* str::split: the pieces between the separators, empty pieces included
Split(text, seps) ==
    IF \A i \in 1..Len(text) : text[i] \notin seps THEN <<text>>
    ELSE LET i == CHOOSE k \in 1..Len(text) :
                    text[k] \in seps /\ \A j \in 1..(k - 1) : text[j] \notin seps
         IN  <<SubSeq(text, 1, i - 1)>> \o Split(SubSeq(text, i + 1, Len(text)), seps)

\* Display for an entity id: "shard:realm:num"
IdToString(id) ==
    DecimalText(id.shard) \o <<":">> \o DecimalText(id.realm) \o <<":">>
    \o DecimalText(id.account)

\* faulty variant: the components are taken in the order realm, shard, num
IdFromStrRealmFirst(s) ==
    LET parts == Split(s, {":", "."})
        shard == ParseI64(parts[1])
        realm == ParseI64(parts[2])
        field == ParseI64(parts[3])
    IN  IF Len(parts) < 3 THEN Err(InvalidID)
        ELSE IF ~shard.ok THEN shard
        ELSE IF ~realm.ok THEN realm
        ELSE IF ~field.ok THEN field
        ELSE Ok(AccountIdNew(realm.val, shard.val, field.val))

\* FromStr for an entity id: split at ':' and '.', parse the pieces, take the
\* first three (next_tuple); later pieces are never looked at
IdFromStr(s) ==
    LET parts == Split(s, {":", "."})
        shard == ParseI64(parts[1])
        realm == ParseI64(parts[2])
        field == ParseI64(parts[3])
    IN  IF Len(parts) < 3 THEN Err(InvalidID)
        ELSE IF ~shard.ok THEN shard
        ELSE IF ~realm.ok THEN realm
        ELSE IF ~field.ok THEN field
        ELSE Ok(AccountIdNew(shard.val, realm.val, field.val))

\* a Timestamp with its nanoseconds, as its text form shows it
TimestampNew(seconds, nanos) == [seconds |-> seconds, nanos |-> nanos]

\* Display for Timestamp: "seconds.nanos"
TimestampToString(t) == DecimalText(t.seconds) \o <<".">> \o DecimalText(t.nanos)

\* FromStr for Timestamp
TimestampFromStr(s) ==
    LET parts == Split(s, {"."})
        seconds == ParseI64(parts[1])
        nanos == ParseI64(parts[2])
    IN  IF Len(parts) < 2 THEN Err(ParseError("{seconds}.{nanos}"))
        ELSE IF ~seconds.ok THEN seconds
        ELSE IF ~nanos.ok THEN nanos
        ELSE Ok(TimestampNew(seconds.val, nanos.val))

\* Display for TransactionId: "{account_id}@{transaction_valid_start}"
TransactionIdToString(tid) ==
    IdToString(tid.account_id) \o <<"@">> \o TimestampToString(tid.transaction_valid_start)

\* FromStr for TransactionId
TransactionIdFromStr(s) ==
    LET parts == Split(s, {"@"})
        account_id == IdFromStr(parts[1])
        timestamp == TimestampFromStr(parts[2])
    IN  IF Len(parts) < 2
        THEN Err(ParseError("{realm}:{shard}:{account}@{seconds}.{nanos}"))
        ELSE IF ~account_id.ok THEN account_id
        ELSE IF ~timestamp.ok THEN timestamp
        ELSE Ok([account_id |-> account_id.val,
                 transaction_valid_start |-> timestamp.val])

\* no text conversion has been made
ConvIdle == [op |-> "none", in |-> <<>>, out |-> <<>>, of |-> <<>>]

----------------------------------------------------------------------------
(* Signing primitive and wire signatures *)

\* SecretKey::sign(bytes): deterministic signature of `secret` over `bytes`
SecretSign(secret, bytes) == [signer |-> secret, msg |-> bytes]

\* Signature::to_proto: a flat wire signature
SignatureToProto(sig) == [tag |-> "ed25519", ed25519 |-> sig, list |-> <<>>]

\* Signature::set_signatureList: a nested signature list holding `sigs`
SignatureList(sigs) == [tag |-> "signatureList", ed25519 |-> None, list |-> sigs]

\* the key that made a wire signature entry (flat, or nested single-element)
SignerOf(entry) ==
    IF entry.tag = "ed25519" THEN entry.ed25519.signer
    ELSE entry.list[1].ed25519.signer

\* the bytes a wire signature entry was computed over
SignedBytesOf(entry) ==
    IF entry.tag = "ed25519" THEN entry.ed25519.msg
    ELSE entry.list[1].ed25519.msg

----------------------------------------------------------------------------
(* Operation payloads *)

\* the Rust-side payload of an operation of variant `kind`
InnerNew(kind) == [tag |-> kind, transfers |-> <<>>, transferAccountID |-> None]

\* a Delete-account payload whose transfer-account field has been set
InnerDeleteTo(id) ==
    [InnerNew("cryptoDelete") EXCEPT !.transferAccountID = Some(id)]

\* TransactionCryptoTransfer::transfer: push (id, amount)
TransferPush(inner, id, amount) ==
    [inner EXCEPT !.transfers = Append(@, <<id, amount>>)]

\* ToProto<TransactionBody_oneof_data>: the payload as its wire variant
InnerToProto(inner) ==
    [tag |-> inner.tag,
     accountAmounts |->
        [i \in 1..Len(inner.transfers) |->
            [accountID |-> inner.transfers[i][1], amount |-> inner.transfers[i][2]]],
     transferAccountID |-> inner.transferAccountID]

----------------------------------------------------------------------------
(* TransactionBuilder -> wire *)

\* faulty variant: a missing node id is replaced by the default id instead of failing
BuilderToProtoBodyDefaultNode(state) ==
    IF IsNone(state.id) THEN Err(MissingField("operator"))
    ELSE Ok([transactionID |-> Unwrap(state.id),
             nodeAccountID |-> IF IsSome(state.node) THEN Unwrap(state.node)
                               ELSE AccountIdNew(0, 0, 0),
             transactionFee |-> state.fee,
             transactionValidDuration |-> ValidDuration,
             generateRecord |-> state.generate_record,
             memo |-> IF IsSome(state.memo) THEN Unwrap(state.memo) ELSE "",
             data |-> InnerToProto(state.inner)])

\* faulty variant: the node id is looked at before the operator id
BuilderToProtoBodyNodeFirst(state) ==
    IF IsNone(state.node) THEN Err(MissingField("node"))
    ELSE IF IsNone(state.id) THEN Err(MissingField("operator"))
    ELSE Ok([transactionID |-> Unwrap(state.id),
             nodeAccountID |-> Unwrap(state.node),
             transactionFee |-> state.fee,
             transactionValidDuration |-> ValidDuration,
             generateRecord |-> state.generate_record,
             memo |-> IF IsSome(state.memo) THEN Unwrap(state.memo) ELSE "",
             data |-> InnerToProto(state.inner)])

\* ToProto<TransactionBody> for TransactionBuilder
BuilderToProtoBody(state) ==
    IF IsNone(state.id) THEN Err(MissingField("operator"))
    ELSE IF IsNone(state.node) THEN Err(MissingField("node"))
    ELSE Ok([transactionID |-> Unwrap(state.id),
             nodeAccountID |-> Unwrap(state.node),
             transactionFee |-> state.fee,
             transactionValidDuration |-> ValidDuration,
             generateRecord |-> state.generate_record,
             memo |-> IF IsSome(state.memo) THEN Unwrap(state.memo) ELSE "",
             data |-> InnerToProto(state.inner)])

\* ToProto<Transaction> for TransactionBuilder: body set, sigs left unset
BuilderToProto(state) ==
    LET body == BuilderToProtoBody(state)
    IN  IF body.ok THEN Ok([body |-> body.val, sigs |-> None]) ELSE body

\* Message::write_to_bytes of a TransactionBody: the fields in schema order,
\* scalar fields holding their default value omitted
WriteToBytes(body) ==
    <<  <<1, body.transactionID>>, <<2, body.nodeAccountID>>  >>
    \o (IF body.transactionFee # 0 THEN << <<3, body.transactionFee>> >> ELSE <<>>)
    \o << <<4, body.transactionValidDuration>> >>
    \o (IF body.generateRecord THEN << <<5, TRUE>> >> ELSE <<>>)
    \o (IF body.memo # "" THEN << <<6, body.memo>> >> ELSE <<>>)
    \o << <<7, body.data>> >>

----------------------------------------------------------------------------
(* Transaction<T, S> *)

KindEmpty == [tag |-> "Empty"]
KindErr(error) == [tag |-> "Err", error |-> error]
KindBuilder(state) == [tag |-> "Builder", state |-> state]
KindRaw(state) == [tag |-> "Raw", state |-> state]

\* Client handle: default node, operator and operator key
ClientNew(node, operator, operator_secret) ==
    [node |-> node, operator |-> operator, operator_secret |-> operator_secret]

\* Transaction::new
TransactionNew(client, inner, now) ==
    [secret |-> client.operator_secret,
     kind |-> KindBuilder(
        [id |-> IF IsSome(client.operator)
                THEN Some(TransactionIdNew(Unwrap(client.operator), now))
                ELSE None,
         node |-> client.node,
         memo |-> None,
         inner |-> inner,
         fee |-> DefaultFee,
         generate_record |-> FALSE])]

\* outcome of a method call: the value afterwards, a panic (if it aborted),
\* the value returned, and the remote calls made
Outcome(t, panic, ret, wire) == [tx |-> t, panic |-> panic, ret |-> ret, wire |-> wire]
Returned(t, ret) == Outcome(t, None, ret, <<>>)
Panicked(t, msg) == Outcome(t, Some(msg), None, <<>>)

\* faulty variant: an executed transaction is treated like a latched error
AsBuilderExecutedIgnored(t) ==
    CASE t.kind.tag = "Builder" -> Returned(t, Some(t.kind.state))
      [] t.kind.tag = "Raw" -> Panicked(t, PanicSigned)
      [] OTHER -> Returned(t, None)

\* Transaction::as_builder
AsBuilder(t) ==
    CASE t.kind.tag = "Builder" -> Returned(t, Some(t.kind.state))
      [] t.kind.tag = "Raw" -> Panicked(t, PanicSigned)
      [] t.kind.tag = "Err" -> Returned(t, None)
      [] OTHER -> Panicked(t, PanicExecuted)

\* a setter's outcome: `if let Some(state) = self.as_builder() { edit }; self`,
\* where b is the outcome of as_builder and edited the state after the edit
Edited(t, b, edited) ==
    IF IsSome(b.panic) THEN b
    ELSE IF IsSome(b.ret) THEN Returned([t EXCEPT !.kind = KindBuilder(edited)], "self")
    ELSE Returned(t, "self")

\* faulty variant: the memo of a frozen transaction is written into its body
SetMemoRewritesFrozen(t, memo) ==
    IF t.kind.tag = "Raw"
    THEN Returned([t EXCEPT !.kind.state.tx.body.memo = memo], "self")
    ELSE Edited(t, AsBuilder(t), [t.kind.state EXCEPT !.memo = Some(memo)])

\* Transaction::memo
SetMemo(t, memo) ==
    Edited(t, AsBuilder(t), [t.kind.state EXCEPT !.memo = Some(memo)])

\* Transaction::operator
SetOperator(t, id, secret, now) ==
    LET o == Edited(t, AsBuilder(t),
                    [t.kind.state EXCEPT !.id = Some(TransactionIdNew(id, now))])
    IN  IF IsSome(o.panic) THEN o
        ELSE Returned([o.tx EXCEPT !.secret = Some(secret)], "self")

\* Transaction::node
SetNode(t, id) ==
    Edited(t, AsBuilder(t), [t.kind.state EXCEPT !.node = Some(id)])

\* Transaction::fee
SetFee(t, fee) ==
    Edited(t, AsBuilder(t), [t.kind.state EXCEPT !.fee = fee])

\* Transaction::generate_record
SetGenerateRecord(t, generate) ==
    Edited(t, AsBuilder(t), [t.kind.state EXCEPT !.generate_record = generate])

\* Transaction<TransactionCryptoTransfer>::transfer (through Transaction::inner)
Transfer(t, id, amount) ==
    LET b == AsBuilder(t)
    IN  IF IsSome(b.panic) THEN b
        ELSE IF IsNone(b.ret) THEN Panicked(t, PanicUnwrapNone)
        ELSE Returned(
                [t EXCEPT !.kind = KindBuilder(
                    [Unwrap(b.ret) EXCEPT !.inner = TransferPush(@, id, amount)])],
                "self")

\* faulty variant: build on a frozen transaction starts over without signatures
BuildDropsSignatures(t) ==
    CASE t.kind.tag = "Empty" -> Panicked(t, PanicExecuted)
      [] t.kind.tag = "Err" -> Returned(t, "self")
      [] t.kind.tag = "Raw" ->
            Returned([t EXCEPT !.kind.state.tx.sigs = None], "self")
      [] OTHER ->
            LET p == BuilderToProto(t.kind.state)
            IN  IF p.ok
                THEN Returned(
                        [t EXCEPT !.kind =
                            KindRaw([tx |-> p.val, bytes |-> WriteToBytes(p.val.body)])],
                        "self")
                ELSE Returned([t EXCEPT !.kind = KindErr(p.err)], "self")

\* Transaction::build: Builder -> Raw | Err, at most once
Build(t) ==
    CASE t.kind.tag = "Empty" -> Panicked(t, PanicExecuted)
      [] t.kind.tag \in {"Raw", "Err"} -> Returned(t, "self")
      [] OTHER ->
            LET p == BuilderToProto(t.kind.state)
            IN  IF p.ok
                THEN Returned(
                        [t EXCEPT !.kind =
                            KindRaw([tx |-> p.val, bytes |-> WriteToBytes(p.val.body)])],
                        "self")
                ELSE Returned([t EXCEPT !.kind = KindErr(p.err)], "self")

\* Transaction::as_raw
AsRaw(t) ==
    CASE t.kind.tag = "Builder" -> Panicked(t, PanicUnreachable)
      [] t.kind.tag = "Raw" -> Returned(t, Some(t.kind.state))
      [] t.kind.tag = "Err" -> Returned(t, None)
      [] OTHER -> Panicked(t, PanicExecuted)

\* faulty variant: the first explicit signature of a file operation is left flat
SignEntryFirstFlat(state, secret) ==
    LET signature == SignatureToProto(SecretSign(secret, state.bytes))
    IN  IF /\ state.tx.body.data.tag \in {"fileCreate", "fileAppend"}
           /\ IsSome(state.tx.sigs) /\ Unwrap(state.tx.sigs) # <<>>
        THEN SignatureList(<<signature>>)
        ELSE signature

\* the wire entry Transaction::sign makes for `secret` over `state.bytes`
SignEntry(state, secret) ==
    LET signature == SignatureToProto(SecretSign(secret, state.bytes))
    IN  IF state.tx.body.data.tag \in {"fileCreate", "fileAppend"}
        THEN SignatureList(<<signature>>)
        ELSE signature

\* faulty variant: the new signature is put in front
PushSignatureFront(sigs, entry) == <<entry>> \o sigs

\* `signatures.push(signature)`
PushSignature(sigs, entry) == Append(sigs, entry)

\* Transaction<T, TransactionRaw>::sign
RawSign(t, secret) ==
    LET r == AsRaw(t)
    IN  IF IsSome(r.panic) THEN r
        ELSE IF IsNone(r.ret) THEN Returned(t, "self")
        ELSE LET state == Unwrap(r.ret)
                 sigs == IF IsSome(state.tx.sigs) THEN Unwrap(state.tx.sigs) ELSE <<>>
             IN  Returned(
                    [t EXCEPT !.kind = KindRaw(
                        [state EXCEPT !.tx.sigs =
                            Some(PushSignature(sigs, SignEntry(state, secret)))])],
                    "self")

\* faulty variant: sign does not build first
SignWithoutBuild(t, secret) == RawSign(t, secret)

\* Transaction<T, TransactionBuilder<T>>::sign: build, then sign
Sign(t, secret) ==
    LET b == Build(t)
    IN  IF IsSome(b.panic) THEN b ELSE RawSign(b.tx, secret)

\* faulty variant: fileAppend is routed to the file-create operation
RpcOfAppendAsCreate(tag) ==
    CASE tag = "cryptoCreateAccount" -> "crypto_service.create_account"
      [] tag = "cryptoTransfer" -> "crypto_service.crypto_transfer"
      [] tag = "cryptoDeleteClaim" -> "crypto_service.delete_claim"
      [] tag = "cryptoDelete" -> "crypto_service.crypto_delete"
      [] tag = "fileCreate" -> "file_service.create_file"
      [] tag = "fileAppend" -> "file_service.create_file"
      [] tag = "contractCreateInstance" -> "contract_service.create_contract"

\* the remote operation a body variant is routed to by execute
RpcOf(tag) ==
    CASE tag = "cryptoCreateAccount" -> "crypto_service.create_account"
      [] tag = "cryptoTransfer" -> "crypto_service.crypto_transfer"
      [] tag = "cryptoDeleteClaim" -> "crypto_service.delete_claim"
      [] tag = "cryptoDelete" -> "crypto_service.crypto_delete"
      [] tag = "fileCreate" -> "file_service.create_file"
      [] tag = "fileAppend" -> "file_service.append_content"
      [] tag = "contractCreateInstance" -> "contract_service.create_contract"

\* a transport outcome: a failure, or a response carrying a precheck code
TransportFailure == [ok |-> FALSE, code |-> "none"]
TransportResponse(code) == [ok |-> TRUE, code |-> code]
ExecResponses == {TransportFailure} \cup {TransportResponse(c) : c \in PreCheckCodes}

\* try_precheck!: Ok(response) on an Ok precheck, Err(PreCheck(code)) otherwise
TryPrecheck(code, val) == IF code = "Ok" THEN Ok(val) ELSE Err(PreCheck(code))

\* faulty variant: the id returned is the one of the node account
DispatchReturnsNodeId(taken, txp, resp) ==
    LET id == txp.body.transactionID
        operator == id.account_id
        tag == txp.body.data.tag
        sent == IF tag = "cryptoDelete" /\ IsNone(txp.body.data.transferAccountID)
                THEN [txp EXCEPT !.body.data.transferAccountID = Some(operator)]
                ELSE txp
    IN  IF tag \in DispatchedKinds
        THEN Outcome(taken, None,
                     IF resp.ok
                     THEN TryPrecheck(resp.code,
                                      [id EXCEPT !.account_id = txp.body.nodeAccountID])
                     ELSE Err(TransportError),
                     << [rpc |-> RpcOf(tag), request |-> sent] >>)
        ELSE Panicked(taken, PanicUnimplemented)

\* faulty variant: the transfer account is set to the operator even when given
DispatchOverwritesTransferAccount(taken, txp, resp) ==
    LET id == txp.body.transactionID
        operator == id.account_id
        tag == txp.body.data.tag
        sent == IF tag = "cryptoDelete"
                THEN [txp EXCEPT !.body.data.transferAccountID = Some(operator)]
                ELSE txp
    IN  IF tag \in DispatchedKinds
        THEN Outcome(taken, None,
                     IF resp.ok THEN TryPrecheck(resp.code, id) ELSE Err(TransportError),
                     << [rpc |-> RpcOf(tag), request |-> sent] >>)
        ELSE Panicked(taken, PanicUnimplemented)

\* faulty variant: a transport failure is answered like an Ok precheck
DispatchSwallowsTransportFailure(taken, txp, resp) ==
    LET id == txp.body.transactionID
        operator == id.account_id
        tag == txp.body.data.tag
        sent == IF tag = "cryptoDelete" /\ IsNone(txp.body.data.transferAccountID)
                THEN [txp EXCEPT !.body.data.transferAccountID = Some(operator)]
                ELSE txp
    IN  IF tag \in DispatchedKinds
        THEN Outcome(taken, None,
                     IF resp.ok THEN TryPrecheck(resp.code, id) ELSE Ok(id),
                     << [rpc |-> RpcOf(tag), request |-> sent] >>)
        ELSE Panicked(taken, PanicUnimplemented)

\* execute, after the operator signature: route the envelope, await the response
Dispatch(taken, txp, resp) ==
    LET id == txp.body.transactionID
        operator == id.account_id
        tag == txp.body.data.tag
        sent == IF tag = "cryptoDelete" /\ IsNone(txp.body.data.transferAccountID)
                THEN [txp EXCEPT !.body.data.transferAccountID = Some(operator)]
                ELSE txp
    IN  IF tag \in DispatchedKinds
        THEN Outcome(taken, None,
                     IF resp.ok THEN TryPrecheck(resp.code, id) ELSE Err(TransportError),
                     << [rpc |-> RpcOf(tag), request |-> sent] >>)
        ELSE Panicked(taken, PanicUnimplemented)

\* faulty variant: the operator signs the bytes together with the signature list
OperatorSignatureOverEnvelope(secret, bytes) ==
    SignatureToProto(SecretSign(secret, <<bytes, "sigs">>))

\* the operator's signature, inserted at index 0 by execute
OperatorSignature(secret, bytes) == SignatureToProto(SecretSign(secret, bytes))

\* Transaction<T, TransactionRaw>::execute
RawExecute(t, resp) ==
    LET taken == [t EXCEPT !.kind = KindEmpty]
    IN  CASE t.kind.tag = "Raw" ->
                LET state == t.kind.state
                IN  IF IsSome(t.secret)
                    THEN IF IsNone(state.tx.sigs)
                         THEN Panicked(taken, PanicUnwrapNone)
                         ELSE Dispatch(taken,
                                [state.tx EXCEPT !.sigs = Some(
                                    <<OperatorSignature(Unwrap(t.secret), state.bytes)>>
                                    \o Unwrap(@))],
                                resp)
                    ELSE Dispatch(taken, state.tx, resp)
          [] t.kind.tag = "Builder" -> Panicked(taken, PanicUnreachable)
          [] t.kind.tag = "Empty" -> Panicked(taken, PanicExecuted)
          [] OTHER -> Returned(taken, Err(t.kind.error))

\* Transaction<T, TransactionBuilder<T>>::execute: build, then execute
Execute(t, resp) ==
    LET b == Build(t)
    IN  IF IsSome(b.panic) THEN b ELSE RawExecute(b.tx, resp)

\* Transaction::take_raw
TakeRaw(t) ==
    LET taken == [t EXCEPT !.kind = KindEmpty]
    IN  CASE t.kind.tag = "Builder" -> Build(taken)
          [] t.kind.tag = "Raw" -> Returned(taken, Ok(t.kind.state))
          [] t.kind.tag = "Err" -> Returned(taken, Err(t.kind.error))
          [] OTHER -> Panicked(taken, PanicExecuted)

----------------------------------------------------------------------------
(* SpecTransaction: one Transaction value and its caller *)

Clients ==
    {ClientNew(n, o, s) :
        n \in {None, Some(NodeId)},
        o \in {None, Some(OperatorId)},
        s \in {None, Some(OperatorKey)}}

ExplicitKeys == {"key_a", "key_b"}

\* the operation payloads a Transaction is created with
Inners == {InnerNew(k) : k \in Kinds} \cup {InnerDeleteTo(OtherId)}

\* the state of the Query variables while only the Transaction is driven
QueryIdle ==
    /\ q = [kind |-> "ANSWER_ONLY", payment |-> None, secret |-> None,
            operator |-> None, node |-> None, attempt |-> 0, inner |-> "none"]
    /\ q_pc = "idle"
    /\ q_sent = <<>>
    /\ q_recv = <<>>
    /\ q_sleeps = <<>>
    /\ q_result = None
    /\ q_calls = 0
    /\ q_start = [method |-> "none", q |-> q]

InitTransaction ==
    /\ \E c \in Clients, inner \in Inners, now \in Nows :
            /\ the_client = c
            /\ tx = TransactionNew(c, inner, now)
    /\ t_last = [op |-> "new", arg |-> None, pre |-> None, ret |-> None, wire |-> <<>>]
    /\ t_wire = <<>>
    /\ t_signed = <<>>
    /\ t_setters = 0
    /\ abort = None
    /\ overflow_checks \in BOOLEAN
    /\ QueryIdle
    /\ conv = ConvIdle

\* faulty variant: a method call on tx restarts the attempt count of the Query
CallResetsAttempt(op, arg, o) ==
    /\ abort = None
    /\ tx' = o.tx
    /\ abort' = o.panic
    /\ t_wire' = t_wire \o o.wire
    /\ t_last' = [op |-> op, arg |-> arg, pre |-> Some(tx), ret |-> o.ret,
                  wire |-> o.wire]
    /\ q' = [q EXCEPT !.attempt = 0]
    /\ UNCHANGED <<overflow_checks, q_pc, q_sent, q_recv, q_sleeps, q_result,
                   q_calls, q_start, conv, the_client>>

\* a method call on tx with outcome o
Call(op, arg, o) ==
    /\ abort = None
    /\ tx' = o.tx
    /\ abort' = o.panic
    /\ t_wire' = t_wire \o o.wire
    /\ t_last' = [op |-> op, arg |-> arg, pre |-> Some(tx), ret |-> o.ret,
                  wire |-> o.wire]
    /\ UNCHANGED <<overflow_checks, qvars, conv, the_client>>

Setter(op, arg, o) ==
    /\ t_setters < MaxSetterCalls
    /\ t_setters' = t_setters + 1
    /\ Call(op, arg, o)
    /\ UNCHANGED t_signed

TxMemo == Setter("memo", Some("m"), SetMemo(tx, "m"))

TxOperator ==
    \E k \in {OperatorKey}, now \in Nows :
        Setter("operator", Some(k), SetOperator(tx, OperatorId, k, now))

TxNode == Setter("node", Some(NodeId), SetNode(tx, NodeId))

TxFee == \E f \in {0} : Setter("fee", Some(f), SetFee(tx, f))

TxGenerateRecord == Setter("generate_record", Some(TRUE), SetGenerateRecord(tx, TRUE))

\* only Transaction<TransactionCryptoTransfer> has transfer()
TxTransfer ==
    /\ tx.kind.tag = "Builder" => tx.kind.state.inner.tag = "cryptoTransfer"
    /\ tx.kind.tag = "Raw" => tx.kind.state.tx.body.data.tag = "cryptoTransfer"
    /\ tx.kind.tag \in {"Builder", "Raw"}
    /\ Setter("transfer", Some(1), Transfer(tx, OtherId, 1))

TxBuild ==
    /\ Call("build", None, Build(tx))
    /\ UNCHANGED <<t_signed, t_setters>>

TxSign ==
    \E k \in ExplicitKeys :
        /\ Len(t_signed) < MaxSigns
        /\ Call("sign", Some(k), Sign(tx, k))
        /\ t_signed' = Append(t_signed, k)
        /\ UNCHANGED t_setters

TxExecute ==
    \E resp \in ExecResponses :
        /\ Call("execute", Some(resp), Execute(tx, resp))
        /\ UNCHANGED <<t_signed, t_setters>>

NextTransaction ==
    \/ TxMemo
    \/ TxOperator
    \/ TxNode
    \/ TxFee
    \/ TxGenerateRecord
    \/ TxTransfer
    \/ TxBuild
    \/ TxSign
    \/ TxExecute

SpecTransaction == InitTransaction /\ [][NextTransaction]_vars

----------------------------------------------------------------------------
(* Query<T> *)

MaxAttempt == 5
BackoffFactor == 2
PaymentPause == 1

RoutedQueryKinds ==
    {"cryptogetAccountBalance", "transactionGetReceipt", "cryptoGetInfo",
     "fileGetInfo", "fileGetContents", "transactionGetRecord",
     "cryptoGetAccountRecords", "contractGetInfo", "contractGetBytecode"}

\* the remote operation a query variant is routed to by send
QueryRpcOf(tag) ==
    CASE tag = "cryptogetAccountBalance" -> "crypto_service.crypto_get_balance"
      [] tag = "transactionGetReceipt" -> "crypto_service.get_transaction_receipts"
      [] tag = "cryptoGetInfo" -> "crypto_service.get_account_info"
      [] tag = "fileGetInfo" -> "file_service.get_file_info"
      [] tag = "fileGetContents" -> "file_service.get_file_content"
      [] tag = "transactionGetRecord" -> "crypto_service.get_tx_record_by_tx_id"
      [] tag = "cryptoGetAccountRecords" -> "crypto_service.get_account_records"
      [] tag = "contractGetInfo" -> "contract_service.get_contract_info"
      [] tag = "contractGetBytecode" -> "contract_service.contract_get_bytecode"

\* Query::new
QueryNew(client, inner) ==
    [kind |-> "ANSWER_ONLY",
     payment |-> None,
     node |-> client.node,
     operator |-> client.operator,
     secret |-> client.operator_secret,
     attempt |-> 0,
     inner |-> inner]

\* outcome of Query::payment: the Query and the Transaction afterwards, a
\* panic (if it aborted) and the value returned
PaymentOutcome(qv, t, panic, ret) == [q |-> qv, tx |-> t, panic |-> panic, ret |-> ret]

\* faulty variant: the envelope is stored without its signatures
PaymentDropsSignatures(qv, t) ==
    LET b == Build(t)
        r == TakeRaw(b.tx)
    IN  IF IsSome(b.panic) THEN PaymentOutcome(qv, b.tx, b.panic, None)
        ELSE IF IsSome(r.panic) THEN PaymentOutcome(qv, r.tx, r.panic, None)
        ELSE IF r.ret.ok
             THEN PaymentOutcome(
                    [qv EXCEPT !.payment = Some([r.ret.val.tx EXCEPT !.sigs = None])],
                    r.tx, None, Ok("self"))
        ELSE PaymentOutcome(qv, r.tx, None, r.ret)

\* Query::payment: `self.payment = Some(transaction.build().take_raw()?.tx)`
\* faulty variant: the transaction keeps its frozen state
PaymentKeepsTransaction(qv, t) ==
    LET b == Build(t)
        r == TakeRaw(b.tx)
    IN  IF IsSome(b.panic) THEN PaymentOutcome(qv, b.tx, b.panic, None)
        ELSE IF IsSome(r.panic) THEN PaymentOutcome(qv, r.tx, r.panic, None)
        ELSE IF r.ret.ok
             THEN PaymentOutcome([qv EXCEPT !.payment = Some(r.ret.val.tx)],
                                 b.tx, None, Ok("self"))
        ELSE PaymentOutcome(qv, r.tx, None, r.ret)

Payment(qv, t) ==
    LET b == Build(t)
        r == TakeRaw(b.tx)
    IN  IF IsSome(b.panic) THEN PaymentOutcome(qv, b.tx, b.panic, None)
        ELSE IF IsSome(r.panic) THEN PaymentOutcome(qv, r.tx, r.panic, None)
        ELSE IF r.ret.ok
             THEN PaymentOutcome([qv EXCEPT !.payment = Some(r.ret.val.tx)],
                                 r.tx, None, Ok("self"))
        ELSE PaymentOutcome(qv, r.tx, None, r.ret)

\* ToProto<proto::Query::Query> for Query
QueryToProto(qv) ==
    [tag |-> qv.inner,
     header |-> [responseType |-> qv.kind, payment |-> qv.payment]]

\* a response as the engine reads it: precheck code, quoted cost, answer
QueryResponse(code, cost, answer) ==
    [ok |-> TRUE, code |-> code, cost |-> cost, answer |-> answer]
QueryTransportFailure == [ok |-> FALSE, code |-> "none", cost |-> 0, answer |-> "none"]

\* `cost as i64`: reinterpretation of an unsigned word as a signed word
AsI64(c) == IF c > I64Max THEN c - Pow2(WordBits) ELSE c

\* the transfer transaction get() builds to pay `cost` from operator to node
SynthesizePayment(qv, cost, now, checks) ==
    LET client == ClientNew(qv.node, qv.operator, qv.secret)
        node == Unwrap(qv.node)
        operator == Unwrap(qv.operator)
        t0 == TransactionNew(client, InnerNew("cryptoTransfer"), now)
        credit == AsI64(cost)
        t1 == Transfer(t0, node, credit).tx
        \* -(cost as i64): i64::MIN has no negation
        overflow == credit = I64Min
        debit == IF overflow THEN I64Min ELSE 0 - credit
        t2 == Transfer(t1, operator, debit).tx
        raw == TakeRaw(Build(t2).tx)
    IN  IF overflow /\ checks THEN [panic |-> Some(PanicNegOverflow), ret |-> None]
        ELSE IF raw.ret.ok THEN [panic |-> None, ret |-> Ok(raw.ret.val.tx)]
        ELSE [panic |-> None, ret |-> raw.ret]

\* faulty variant: a Busy response is retried at attempt = 5 as well
BusyRetryAllowedInclusive(qv) == qv.attempt <= MaxAttempt

\* faulty variant: ten Busy responses are retried
BusyRetryAllowedTenTimes(qv) == qv.attempt < 2 * MaxAttempt

\* faulty variant: the retry budget one short
BusyRetryAllowedOneShort(qv) == qv.attempt < MaxAttempt - 1

\* the Busy arm's guard: `if self.attempt < 5`
BusyRetryAllowed(qv) == qv.attempt < MaxAttempt

\* faulty variant: the sleep computed from the attempt count before its increment
BackoffSecondsBeforeIncrement(attempt) == (attempt - 1) * BackoffFactor

\* faulty variant: every backoff sleep lasts 2 seconds
BackoffSecondsConstant(attempt) == BackoffFactor

\* the Busy arm's sleep, taken after the increment: `self.attempt * 2`
BackoffSeconds(attempt) == attempt * BackoffFactor

\* faulty variant: the signing key is not asked for
HasDefaultsNoKey(qv) == IsSome(qv.operator) /\ IsSome(qv.node)

\* the defaults get() needs to pay by itself
HasDefaults(qv) == IsSome(qv.operator) /\ IsSome(qv.node) /\ IsSome(qv.secret)

\* one invocation of a query method, up to its return or its recursive call:
\*   q      the Query afterwards        panic  the abort, if any
\*   sent   the requests sent           sleeps the sleeps made
\*   again  the method calls itself     ret    the value returned otherwise
QStep(qv, panic, sent, sleeps, again, ret) ==
    [q |-> qv, panic |-> panic, sent |-> sent, sleeps |-> sleeps,
     again |-> again, ret |-> ret]

\* Query::send: build the request, route it, await the response
Send(qv) ==
    IF qv.inner \in RoutedQueryKinds
    THEN [panic |-> None,
          sent |-> << [rpc |-> QueryRpcOf(qv.inner), request |-> QueryToProto(qv)] >>]
    ELSE [panic |-> Some(PanicUnreachable), sent |-> <<>>]

\* faulty variant: InvalidTransaction negotiates a payment even when one is attached
GetReplacesPayment(qv, resp, now, checks) ==
    LET s == Send(qv)
    IN  IF IsSome(s.panic) THEN QStep(qv, s.panic, <<>>, <<>>, FALSE, None)
        ELSE IF ~resp.ok THEN QStep(qv, None, s.sent, <<>>, FALSE, Err(TransportError))
        ELSE IF resp.code = "Ok"
             THEN QStep(qv, None, s.sent, <<>>, FALSE, Ok(resp.answer))
        ELSE IF resp.code = "Busy" /\ BusyRetryAllowed(qv)
             THEN LET attempt == qv.attempt + 1
                  IN  QStep([qv EXCEPT !.attempt = attempt], None, s.sent,
                            <<BackoffSeconds(attempt)>>, TRUE, None)
        ELSE IF resp.code = "InvalidTransaction"
             THEN IF HasDefaults(qv)
                  THEN LET p == SynthesizePayment(qv, resp.cost, now, checks)
                       IN  IF IsSome(p.panic)
                           THEN QStep(qv, p.panic, s.sent, <<>>, FALSE, None)
                           ELSE IF ~p.ret.ok
                           THEN QStep(qv, None, s.sent, <<>>, FALSE, p.ret)
                           ELSE QStep([qv EXCEPT !.payment = Some(p.ret.val)], None,
                                      s.sent, <<PaymentPause>>, TRUE, None)
                  ELSE QStep(qv, None, s.sent, <<>>, FALSE,
                             Err(PreCheck("InvalidTransaction")))
        ELSE QStep(qv, None, s.sent, <<>>, FALSE, Err(PreCheck(resp.code)))

\* faulty variant: a terminal code uses up one attempt
GetCountsTerminal(qv, resp, now, checks) ==
    LET s == Send(qv)
    IN  IF IsSome(s.panic) THEN QStep(qv, s.panic, <<>>, <<>>, FALSE, None)
        ELSE IF ~resp.ok THEN QStep(qv, None, s.sent, <<>>, FALSE, Err(TransportError))
        ELSE IF resp.code = "Ok"
             THEN QStep(qv, None, s.sent, <<>>, FALSE, Ok(resp.answer))
        ELSE IF resp.code = "Busy" /\ BusyRetryAllowed(qv)
             THEN LET attempt == qv.attempt + 1
                  IN  QStep([qv EXCEPT !.attempt = attempt], None, s.sent,
                            <<BackoffSeconds(attempt)>>, TRUE, None)
        ELSE IF resp.code = "InvalidTransaction" /\ IsNone(qv.payment)
             THEN IF HasDefaults(qv)
                  THEN LET p == SynthesizePayment(qv, resp.cost, now, checks)
                       IN  IF IsSome(p.panic)
                           THEN QStep(qv, p.panic, s.sent, <<>>, FALSE, None)
                           ELSE IF ~p.ret.ok
                           THEN QStep(qv, None, s.sent, <<>>, FALSE, p.ret)
                           ELSE QStep([qv EXCEPT !.payment = Some(p.ret.val)], None,
                                      s.sent, <<PaymentPause>>, TRUE, None)
                  ELSE QStep(qv, None, s.sent, <<>>, FALSE,
                             Err(PreCheck("InvalidTransaction")))
        ELSE QStep([qv EXCEPT !.attempt = IF @ < MaxAttempt THEN @ + 1 ELSE @],
                   None, s.sent, <<>>, FALSE, Err(PreCheck(resp.code)))

\* Query::get
Get(qv, resp, now, checks) ==
    LET s == Send(qv)
    IN  IF IsSome(s.panic) THEN QStep(qv, s.panic, <<>>, <<>>, FALSE, None)
        ELSE IF ~resp.ok THEN QStep(qv, None, s.sent, <<>>, FALSE, Err(TransportError))
        ELSE IF resp.code = "Ok"
             THEN QStep(qv, None, s.sent, <<>>, FALSE, Ok(resp.answer))
        ELSE IF resp.code = "Busy" /\ BusyRetryAllowed(qv)
             THEN LET attempt == qv.attempt + 1
                  IN  QStep([qv EXCEPT !.attempt = attempt], None, s.sent,
                            <<BackoffSeconds(attempt)>>, TRUE, None)
        ELSE IF resp.code = "InvalidTransaction" /\ IsNone(qv.payment)
             THEN IF HasDefaults(qv)
                  THEN LET p == SynthesizePayment(qv, resp.cost, now, checks)
                       IN  IF IsSome(p.panic)
                           THEN QStep(qv, p.panic, s.sent, <<>>, FALSE, None)
                           ELSE IF ~p.ret.ok
                           THEN QStep(qv, None, s.sent, <<>>, FALSE, p.ret)
                           ELSE QStep([qv EXCEPT !.payment = Some(p.ret.val)], None,
                                      s.sent, <<PaymentPause>>, TRUE, None)
                  ELSE QStep(qv, None, s.sent, <<>>, FALSE,
                             Err(PreCheck("InvalidTransaction")))
        ELSE QStep(qv, None, s.sent, <<>>, FALSE, Err(PreCheck(resp.code)))

\* faulty variant: InvalidTransaction is an error for cost() as well
CostInvalidTransactionFails(qv, resp) ==
    LET qc == [qv EXCEPT !.kind = "COST_ANSWER"]
        s == Send(qc)
    IN  IF IsSome(s.panic) THEN QStep(qc, s.panic, <<>>, <<>>, FALSE, None)
        ELSE IF ~resp.ok THEN QStep(qc, None, s.sent, <<>>, FALSE, Err(TransportError))
        ELSE IF resp.code = "Ok"
             THEN QStep(qc, None, s.sent, <<>>, FALSE, Ok(resp.cost))
        ELSE IF resp.code = "Busy" /\ BusyRetryAllowed(qc)
             THEN LET attempt == qc.attempt + 1
                  IN  QStep([qc EXCEPT !.attempt = attempt], None, s.sent,
                            <<BackoffSeconds(attempt)>>, TRUE, None)
        ELSE QStep(qc, None, s.sent, <<>>, FALSE, Err(PreCheck(resp.code)))

\* Query::cost
Cost(qv, resp) ==
    LET qc == [qv EXCEPT !.kind = "COST_ANSWER"]
        s == Send(qc)
    IN  IF IsSome(s.panic) THEN QStep(qc, s.panic, <<>>, <<>>, FALSE, None)
        ELSE IF ~resp.ok THEN QStep(qc, None, s.sent, <<>>, FALSE, Err(TransportError))
        ELSE IF resp.code \in {"Ok", "InvalidTransaction"}
             THEN QStep(qc, None, s.sent, <<>>, FALSE, Ok(resp.cost))
        ELSE IF resp.code = "Busy" /\ BusyRetryAllowed(qc)
             THEN LET attempt == qc.attempt + 1
                  IN  QStep([qc EXCEPT !.attempt = attempt], None, s.sent,
                            <<BackoffSeconds(attempt)>>, TRUE, None)
        ELSE QStep(qc, None, s.sent, <<>>, FALSE, Err(PreCheck(resp.code)))

----------------------------------------------------------------------------
(* SpecQuery: one Query value and its caller; a step is one invocation of  *)
(* get() or cost(): one request, its response and the handling of it       *)

QueryKinds == RoutedQueryKinds \cup {"cryptoGetClaim"}

Answers == {"answer_1", "answer_2"}

\* quoted costs: the boundary values of the unsigned word
Costs == {0, 1, I64Max, I64Max + 1, U64Max}

\* responses to a get request (the fields get() never reads are fixed)
GetResponses ==
    {QueryTransportFailure}
    \cup {QueryResponse("Ok", 0, a) : a \in Answers}
    \cup {QueryResponse("InvalidTransaction", c, "none") : c \in Costs}
    \cup {QueryResponse(code, 0, "none") : code \in PreCheckCodes \ {"Ok", "InvalidTransaction"}}

\* responses to a cost request (the fields cost() never reads are fixed)
CostResponses ==
    {QueryTransportFailure}
    \cup {QueryResponse(code, c, "none") : code \in {"Ok", "InvalidTransaction"}, c \in Costs}
    \cup {QueryResponse(code, 0, "none") : code \in PreCheckCodes \ {"Ok", "InvalidTransaction"}}

\* a transfer transaction of `client`, as the caller hands it to payment():
\* still Building, or built and signed with the keys of `signers` in order
PaymentTransaction(client, now, signers, built) ==
    LET t0 == TransactionNew(client, InnerNew("cryptoTransfer"), now)
        t1 == Transfer(t0, NodeId, 1).tx
        t2 == Transfer(t1, OperatorId, 0 - 1).tx
        t3 == IF built THEN Build(t2).tx ELSE t2
    IN  IF Len(signers) = 0 THEN t3
        ELSE IF Len(signers) = 1 THEN Sign(t3, signers[1]).tx
        ELSE Sign(Sign(t3, signers[1]).tx, signers[2]).tx

\* the transactions handed to payment(): with and without a node id (the
\* freeze of the latter fails), Building or Frozen, with 0 to 2 signatures
PaymentTransactions ==
    {PaymentTransaction(ClientNew(n, Some(OperatorId), None), now, <<>>, b) :
        n \in {None, Some(NodeId)}, now \in Nows, b \in BOOLEAN}
    \cup {PaymentTransaction(ClientNew(Some(NodeId), Some(OperatorId), None), now, ks, TRUE) :
            now \in Nows, ks \in {<<"key_a">>, <<"key_b", "key_a">>}}

\* the state of the Transaction variables while only the Query is driven
TransactionIdle ==
    /\ tx = [secret |-> None, kind |-> KindEmpty]
    /\ t_last = [op |-> "none", arg |-> None, pre |-> None, ret |-> None, wire |-> <<>>]
    /\ t_wire = <<>>
    /\ t_signed = <<>>
    /\ t_setters = 0

InitQuery ==
    /\ \E c \in Clients, k \in QueryKinds :
            /\ the_client = c
            /\ q = QueryNew(c, k)
    /\ q_pc = "idle"
    /\ q_sent = <<>>
    /\ q_recv = <<>>
    /\ q_sleeps = <<>>
    /\ q_result = None
    /\ q_calls = 0
    /\ q_start = [method |-> "none", q |-> q]
    /\ abort = None
    /\ overflow_checks \in BOOLEAN
    /\ TransactionIdle
    /\ conv = ConvIdle

\* an invocation of `method` with response `resp` and outcome `o`; a call from
\* the idle caller starts a new call, an invocation at pc = method is the
\* recursive self-call
Invoke(method, resp, o) ==
    /\ abort = None
    /\ \/ q_pc = "idle" /\ q_calls < MaxCalls
       \/ q_pc = method
    /\ LET fresh == q_pc = "idle"
       IN  /\ q_calls' = IF fresh THEN q_calls + 1 ELSE q_calls
           /\ q_sent' = (IF fresh THEN <<>> ELSE q_sent) \o o.sent
           /\ q_recv' = IF o.sent = <<>> THEN (IF fresh THEN <<>> ELSE q_recv)
                        ELSE Append(IF fresh THEN <<>> ELSE q_recv, resp)
           /\ q_sleeps' = (IF fresh THEN <<>> ELSE q_sleeps) \o o.sleeps
           /\ q_start' = IF fresh THEN [method |-> method, q |-> q] ELSE q_start
    /\ q' = o.q
    /\ abort' = o.panic
    /\ q_pc' = IF o.again THEN method ELSE "idle"
    /\ q_result' = IF o.again \/ IsSome(o.panic) THEN None
                   ELSE Some([method |-> method, ret |-> o.ret])
    /\ UNCHANGED <<overflow_checks, tvars, conv, the_client>>

\* a payment() call of the idle caller with transaction t
QPayment ==
    \E t \in PaymentTransactions :
        LET o == Payment(q, t)
        IN  /\ abort = None
            /\ q_pc = "idle"
            /\ q_calls < MaxCalls
            /\ q_calls' = q_calls + 1
            /\ q' = o.q
            /\ tx' = o.tx
            /\ t_last' = [op |-> "payment", arg |-> None, pre |-> Some(t),
                          ret |-> o.ret, wire |-> <<>>]
            /\ abort' = o.panic
            /\ q_pc' = "idle"
            /\ q_sent' = <<>>
            /\ q_recv' = <<>>
            /\ q_sleeps' = <<>>
            /\ q_start' = [method |-> "payment", q |-> q]
            /\ q_result' = IF IsSome(o.panic) THEN None
                           ELSE Some([method |-> "payment", ret |-> o.ret])
            /\ UNCHANGED <<overflow_checks, t_wire, t_signed, t_setters, conv, the_client>>

QGet ==
    \E resp \in GetResponses, now \in Nows :
        Invoke("get", resp, Get(q, resp, now, overflow_checks))

QCost ==
    \E resp \in CostResponses :
        Invoke("cost", resp, Cost(q, resp))

NextQuery ==
    \/ QGet
    \/ QCost

SpecQuery == InitQuery /\ [][NextQuery]_vars

----------------------------------------------------------------------------
(* SpecPayment: one Query value whose caller may also hand it a payment    *)
(* transaction before a get() or cost()                                    *)

\* the query kinds of the paid queries: one per service client used
PaidQueryKinds == {"cryptogetAccountBalance", "fileGetContents"}

InitPayment ==
    /\ InitQuery
    /\ q.inner \in PaidQueryKinds

NextPayment ==
    \/ QPayment
    \/ QGet
    \/ QCost

SpecPayment == InitPayment /\ [][NextPayment]_vars

----------------------------------------------------------------------------
(* SpecNegotiation: get() and cost() on one balance query, with every      *)
(* request answered in the end: send blocks until the response or the      *)
(* transport failure is there, and a sleep ends                            *)

\* the Clients of the negotiation: without defaults, and with all of them
NegotiationClients ==
    {ClientNew(None, None, None),
     ClientNew(Some(NodeId), Some(OperatorId), Some(OperatorKey))}

InitNegotiation ==
    /\ InitQuery
    /\ q.inner = "cryptogetAccountBalance"
    /\ the_client \in NegotiationClients

SpecNegotiation == InitNegotiation /\ [][NextQuery]_vars /\ WF_vars(NextQuery)

----------------------------------------------------------------------------
(* SpecConsumed: payment() and get() with a caller that goes on to use the *)
(* transaction it handed to payment()                                      *)

\* the last call was payment(): tx is the transaction it was given
PaymentReturned == t_last.op = "payment"

NextConsumed ==
    \/ QPayment
    \/ QGet
    \/ PaymentReturned /\ TxBuild
    \/ PaymentReturned /\ TxSign
    \/ PaymentReturned /\ TxExecute

SpecConsumed == InitPayment /\ [][NextConsumed]_vars

----------------------------------------------------------------------------
(* SpecTakeRaw: SpecTransaction's freezing and signing, with the internal  *)
(* take_raw called on the transaction in any of its states                 *)

TxTakeRaw ==
    /\ Call("take_raw", None, TakeRaw(tx))
    /\ UNCHANGED <<t_signed, t_setters>>

NextTakeRaw ==
    \/ TxBuild
    \/ TxSign
    \/ TxTakeRaw

SpecTakeRaw == InitTransaction /\ [][NextTakeRaw]_vars

----------------------------------------------------------------------------
(* SpecRemote: a caller that drives either one Transaction or one Query:   *)
(* every value that sends requests to the network                          *)

InitRemote == InitTransaction \/ InitQuery

\* a Transaction is the value driven
TransactionDriven == t_last.op # "none"

\* a Query is the value driven
QueryDriven == q.inner # "none"

NextRemote ==
    \/ TransactionDriven /\ NextTransaction
    \/ QueryDriven /\ NextQuery

SpecRemote == InitRemote /\ [][NextRemote]_vars

----------------------------------------------------------------------------
(* SpecShared: one caller holds a Transaction and a Query derived from the *)
(* same Client and interleaves their operations                            *)

\* the Clients shared: without defaults, and with node, operator and key
SharedClients ==
    {ClientNew(None, None, None),
     ClientNew(Some(NodeId), Some(OperatorId), Some(OperatorKey))}

InitShared ==
    /\ \E c \in SharedClients, now \in Nows :
            /\ the_client = c
            /\ tx = TransactionNew(c, InnerNew("cryptoTransfer"), now)
            /\ q = QueryNew(c, "cryptogetAccountBalance")
    /\ t_last = [op |-> "new", arg |-> None, pre |-> None, ret |-> None, wire |-> <<>>]
    /\ t_wire = <<>>
    /\ t_signed = <<>>
    /\ t_setters = 0
    /\ q_pc = "idle"
    /\ q_sent = <<>>
    /\ q_recv = <<>>
    /\ q_sleeps = <<>>
    /\ q_result = None
    /\ q_calls = 0
    /\ q_start = [method |-> "none", q |-> q]
    /\ abort = None
    /\ overflow_checks = TRUE
    /\ conv = ConvIdle

SharedSign == Len(t_signed) < MaxSharedSigns /\ TxSign

\* the responses to the requests of the shared Query: one of each class
SharedResponses ==
    {QueryTransportFailure,
     QueryResponse("Ok", 1, "answer_1"),
     QueryResponse("InvalidTransaction", 1, "none"),
     QueryResponse("Busy", 0, "none")}

SharedGet ==
    \E resp \in SharedResponses, now \in Nows :
        /\ q_pc = "idle" => q_calls < MaxSharedCalls
        /\ Invoke("get", resp, Get(q, resp, now, overflow_checks))

SharedCost ==
    \E resp \in SharedResponses :
        /\ q_pc = "idle" => q_calls < MaxSharedCalls
        /\ Invoke("cost", resp, Cost(q, resp))

NextShared ==
    \/ TxBuild
    \/ SharedSign
    \/ TxExecute
    \/ SharedGet
    \/ SharedCost

SpecShared == InitShared /\ [][NextShared]_vars

----------------------------------------------------------------------------
(* SpecText: the caller formats and parses entity ids and transaction ids  *)

Nums == 0..MaxNum

\* the entity ids that are formatted
Ids == {AccountIdNew(shard, realm, num) : shard \in Nums, realm \in Nums,
                                          num \in {0, MaxNum, 1001}}

\* the transaction ids that are formatted
TransactionIds ==
    {[account_id |-> id, transaction_valid_start |-> TimestampNew(seconds, nanos)] :
        id \in {OperatorId, AccountIdNew(7, 5, 1001)},
        seconds \in {0, 95, 1234567},
        nanos \in {0, 10001, 999999999}}

\* components of the texts that are parsed, each with the integer it denotes
\* (None: it denotes no integer)
IntPart(n) == [text |-> DecimalText(n), int |-> Some(n)]
TextParts ==
    {IntPart(7), IntPart(10), IntPart(0 - 3),
     [text |-> <<"x">>, int |-> None], [text |-> <<>>, int |-> None]}

PartLists == UNION {[1..n -> TextParts] : n \in 1..MaxParts}
SeparatorLists(n) == [1..(n - 1) -> {":", "."}]

RECURSIVE Join(_, _)
\* the text of the components `parts` with separators[i] after the i-th
Join(parts, separators) ==
    IF Len(parts) = 1 THEN parts[1].text
    ELSE parts[1].text \o <<separators[1]>> \o Join(Tail(parts), Tail(separators))

\* a conversion `op` of `input` giving `output`; `of` is what the input was
\* made from: the value that was formatted, or the components that were joined
Converted(op, input, output, of) ==
    /\ conv' = [op |-> op, in |-> input, out |-> output, of |-> of]
    /\ UNCHANGED <<tvars, qvars, abort, overflow_checks, the_client>>

\* the caller makes one conversion, or formats a value and parses the text back
TextIdToString ==
    /\ conv = ConvIdle
    /\ \E id \in Ids : Converted("id.to_string", id, IdToString(id), None)

\* the text an id was formatted to is parsed
TextIdParseFormatted ==
    /\ conv.op = "id.to_string"
    /\ Converted("id.parse", conv.out, IdFromStr(conv.out), Some(conv.in))

\* a text joined from components is parsed
TextIdParse ==
    /\ conv = ConvIdle
    /\ \E parts \in PartLists :
        \E separators \in SeparatorLists(Len(parts)) :
            LET s == Join(parts, separators)
            IN  Converted("id.parse_text", s, IdFromStr(s),
                          Some([parts |-> parts, separators |-> separators]))

TextTransactionIdToString ==
    /\ conv = ConvIdle
    /\ \E tid \in TransactionIds :
        Converted("transaction_id.to_string", tid, TransactionIdToString(tid), None)

TextTransactionIdParseFormatted ==
    /\ conv.op = "transaction_id.to_string"
    /\ Converted("transaction_id.parse", conv.out, TransactionIdFromStr(conv.out),
                 Some(conv.in))

InitText ==
    /\ conv = ConvIdle
    /\ the_client = ClientNew(None, None, None)
    /\ abort = None
    /\ overflow_checks = TRUE
    /\ TransactionIdle
    /\ QueryIdle

NextText ==
    \/ TextIdToString
    \/ TextIdParseFormatted
    \/ TextIdParse
    \/ TextTransactionIdToString
    \/ TextTransactionIdParseFormatted

SpecText == InitText /\ [][NextText]_vars

----------------------------------------------------------------------------
(* Vocabulary of the properties below *)

\* the current (or last) call on q is a get() / has returned
GetCall == q_start.method = "get"
Finished == q_pc = "idle" /\ IsSome(q_result)
Returns(v) == Finished /\ Unwrap(q_result).ret = v

\* the Query was created from a Client with default operator, node and key
ClientComplete(qv) == qv.operator # None /\ qv.node # None /\ qv.secret # None

\* every response of the sequence is a Busy response
AllBusy(recv) == \A i \in 1..Len(recv) : recv[i].ok /\ recv[i].code = "Busy"

\* the sleeps 2, 4, ..., 2k
LinearBackoff(k) == [i \in 1..k |-> 2 * i]

----------------------------------------------------------------------------
(* Busy backoff of get() *)

\* C1: a get() on a Query with attempt = 0 that is answered Busy k times
\* (0 <= k <= 4) and then Ok has slept exactly 2, 4, ..., 2k seconds, has sent
\* exactly k+1 requests and returns the answer of the (k+1)-th response.
C1_BusyBackoffSuccess ==
    \A k \in 0..4 :
        ( /\ GetCall /\ Finished
          /\ q_start.q.attempt = 0
          /\ Len(q_recv) = k + 1
          /\ AllBusy(SubSeq(q_recv, 1, k))
          /\ q_recv[k + 1].ok /\ q_recv[k + 1].code = "Ok" )
        => /\ q_sleeps = LinearBackoff(k)
           /\ Len(q_sent) = k + 1
           /\ Returns(Ok(q_recv[k + 1].answer))

C1_Witness ==
    /\ GetCall /\ Finished
    /\ q_start.q.attempt = 0
    /\ Len(q_recv) = 5 /\ AllBusy(SubSeq(q_recv, 1, 4))
    /\ q_recv[5].code = "Ok"
    /\ q_sleeps = <<2, 4, 6, 8>>
    /\ Returns(Ok("answer_2"))

----------------------------------------------------------------------------
(* Payment negotiation of get() *)

\* the transfer list of a wire transaction, as (account, amount) pairs
TransfersOf(txp) ==
    [i \in 1..Len(txp.body.data.accountAmounts) |->
        <<txp.body.data.accountAmounts[i].accountID,
          txp.body.data.accountAmounts[i].amount>>]

\* the current get() started without a payment and was answered
\* InvalidTransaction quoting c, then Ok
NegotiatedThenOk(c) ==
    /\ GetCall /\ Finished
    /\ IsNone(q_start.q.payment)
    /\ ClientComplete(q_start.q)
    /\ Len(q_recv) = 2
    /\ q_recv[1].ok /\ q_recv[1].code = "InvalidTransaction" /\ q_recv[1].cost = c
    /\ q_recv[2].ok /\ q_recv[2].code = "Ok"

\* what C3 promises of such a call
NegotiationOutcome(c) ==
    /\ IsSome(q.payment)
    /\ Unwrap(q.payment).body.data.tag = "cryptoTransfer"
    /\ Unwrap(q.payment).body.transactionID.account_id = Unwrap(q_start.q.operator)
    /\ Unwrap(q.payment).body.nodeAccountID = Unwrap(q_start.q.node)
    /\ TransfersOf(Unwrap(q.payment)) =
            << <<Unwrap(q_start.q.node), c>>, <<Unwrap(q_start.q.operator), 0 - c>> >>
    /\ q_sleeps = <<1>>
    /\ Len(q_sent) = 2
    /\ IsNone(q_sent[1].request.header.payment)
    /\ q_sent[2].request.header.payment = q.payment
    /\ Returns(Ok(q_recv[2].answer))

\* C3: a get() without payment, on a Query with default operator, node and key,
\* that is answered InvalidTransaction quoting cost c and then Ok ends with the
\* payment (node, +c), (operator, -c) attached, after exactly one 1-second wait
\* and one re-send carrying that payment, and returns the second answer.
C3_PaymentNegotiation ==
    \A c \in Costs : NegotiatedThenOk(c) => NegotiationOutcome(c)

\* C3 for the costs that fit the signed word (c <= i64::MAX)
C3_PaymentNegotiationSignedRange ==
    \A c \in Costs : (c <= I64Max /\ NegotiatedThenOk(c)) => NegotiationOutcome(c)

C3_SignedRangeWitness == NegotiatedThenOk(1) /\ NegotiationOutcome(1)

\* C4: the payment get() synthesizes is fully signed: when it is attached, and
\* in every request that carries it, its signature list is non-empty and holds
\* a signature of the default operator key over the payment's body bytes.
C4_SynthesizedPaymentSigned ==
    LET Signed(payment) ==
            /\ IsSome(payment.sigs)
            /\ Unwrap(payment.sigs) # <<>>
            /\ \E i \in 1..Len(Unwrap(payment.sigs)) :
                    /\ SignerOf(Unwrap(payment.sigs)[i]) = Unwrap(q_start.q.secret)
                    /\ SignedBytesOf(Unwrap(payment.sigs)[i]) = WriteToBytes(payment.body)
    IN  (GetCall /\ IsNone(q_start.q.payment))
        => /\ IsSome(q.payment) => Signed(Unwrap(q.payment))
           /\ \A i \in 1..Len(q_sent) :
                IsSome(q_sent[i].request.header.payment)
                => Signed(Unwrap(q_sent[i].request.header.payment))

\* C5: on a get() without payment whose Query lacks a default operator, node
\* or key, an InvalidTransaction response ends the call with
\* PreCheck(InvalidTransaction): it is the last response of the call, no
\* request follows it, no sleep follows it (the sleeps are those of the Busy
\* responses before it) and no payment is attached.
C5_MissingDefaults ==
    (GetCall /\ IsNone(q_start.q.payment) /\ ~ClientComplete(q_start.q))
    => \A i \in 1..Len(q_recv) :
            (q_recv[i].ok /\ q_recv[i].code = "InvalidTransaction")
            => /\ i = Len(q_recv)
               /\ Len(q_sent) = i
               /\ Returns(Err(PreCheck("InvalidTransaction")))
               /\ IsNone(q.payment)
               /\ AllBusy(SubSeq(q_recv, 1, i - 1))
               /\ Len(q_sleeps) = i - 1
               /\ abort = None

C5_Witness ==
    /\ GetCall /\ IsNone(q_start.q.payment)
    /\ IsNone(q_start.q.secret) /\ IsSome(q_start.q.operator) /\ IsSome(q_start.q.node)
    /\ Len(q_recv) = 2
    /\ q_recv[2].code = "InvalidTransaction"
    /\ Returns(Err(PreCheck("InvalidTransaction")))
    /\ IsNone(q.payment) /\ Len(q_sent) = 2 /\ q_sleeps = <<2>>

----------------------------------------------------------------------------
(* Vocabulary of the Transaction properties *)

\* the Transaction before the last call, and what the call was
Pre == Unwrap(t_last.pre)
Called(op) == t_last.op = op /\ IsSome(t_last.pre)

\* the signature list of a wire transaction (empty when unset)
SigsOf(txp) == IF IsSome(txp.sigs) THEN Unwrap(txp.sigs) ELSE <<>>

\* the keys that made the entries of a signature list, in order
SignersOf(sigs) == [i \in 1..Len(sigs) |-> SignerOf(sigs[i])]

IsFlat(entry) == entry.tag = "ed25519"
IsNestedSingle(entry) ==
    entry.tag = "signatureList" /\ Len(entry.list) = 1 /\ IsFlat(entry.list[1])

IsPrefix(a, b) == Len(a) <= Len(b) /\ SubSeq(b, 1, Len(a)) = a
IsSuffix(a, b) == Len(a) <= Len(b) /\ SubSeq(b, Len(b) - Len(a) + 1, Len(b)) = a

----------------------------------------------------------------------------
(* Freeze-time errors *)

\* C6: build on a Building transaction with an operator id and no node id
\* does not abort and leaves it ErrorLatched with MissingField("node"); an
\* execute that follows returns exactly that error and makes no remote call.
C6_MissingNode ==
    /\ ( /\ Called("build")
         /\ Pre.kind.tag = "Builder"
         /\ Pre.kind.state.id # None /\ Pre.kind.state.node = None )
       => /\ abort = None
          /\ tx.kind = KindErr(MissingField("node"))
          /\ t_wire = <<>>
    /\ ( /\ Called("execute")
         /\ Pre.kind = KindErr(MissingField("node")) )
       => /\ abort = None
          /\ t_last.ret = Err(MissingField("node"))
          /\ t_wire = <<>>

C6_Witness ==
    /\ Called("execute")
    /\ Pre.kind = KindErr(MissingField("node"))
    /\ t_last.ret = Err(MissingField("node"))
    /\ t_wire = <<>> /\ abort = None

\* C7: on an ErrorLatched transaction every build, sign and execute call
\* reports the latched error, leaves the transaction ErrorLatched with that
\* error, does not abort and makes no remote call.
C7_LatchedErrorDurable ==
    ( /\ t_last.op \in {"build", "sign", "execute"}
      /\ IsSome(t_last.pre)
      /\ Pre.kind.tag = "Err" )
    => /\ abort = None
       /\ tx.kind = Pre.kind
       /\ t_wire = <<>>
       /\ t_last.op = "execute" => t_last.ret = Err(Pre.kind.error)

----------------------------------------------------------------------------
(* Signature list *)

\* the last call was an execute of a Frozen transaction of a routed kind
ExecutedFrozen ==
    /\ Called("execute")
    /\ Pre.kind.tag = "Raw"
    /\ Pre.kind.state.tx.body.data.tag \in DispatchedKinds

\* C8: execute of a Frozen transaction that has an operator key, after n >= 0
\* explicit sign calls, sends a signature list of length n+1 whose entry 0 is
\* the operator key's signature over the frozen bytes.
C8_OperatorSignatureFirst ==
    (ExecutedFrozen /\ Pre.secret # None)
    => /\ abort = None
       /\ Len(t_wire) = 1
       /\ LET sigs == SigsOf(t_wire[1].request)
          IN  /\ Len(sigs) = Len(t_signed) + 1
              /\ IsFlat(sigs[1])
              /\ SignerOf(sigs[1]) = Unwrap(Pre.secret)
              /\ SignedBytesOf(sigs[1]) = Pre.kind.state.bytes

\* C8 for n >= 1: after at least one explicit sign call
C8_OperatorSignatureFirstAfterSign ==
    (ExecutedFrozen /\ Pre.secret # None /\ t_signed # <<>>)
    => /\ abort = None
       /\ Len(t_wire) = 1
       /\ LET sigs == SigsOf(t_wire[1].request)
          IN  /\ Len(sigs) = Len(t_signed) + 1
              /\ IsFlat(sigs[1])
              /\ SignerOf(sigs[1]) = Unwrap(Pre.secret)
              /\ SignedBytesOf(sigs[1]) = Pre.kind.state.bytes

\* C9: after explicit sign calls with keys k1..kn (n >= 1) the signature list
\* of the Frozen transaction is the signatures of k1..kn over the frozen
\* bytes, in call order; execute sends [operator, k1..kn] with an operator
\* key and [k1..kn] without one; a sign call keeps the entries before it as
\* a prefix and execute keeps them as the tail of what it sends.
C9_ExplicitSignaturesInCallOrder ==
    /\ (tx.kind.tag = "Raw" /\ t_signed # <<>>)
       => LET sigs == SigsOf(tx.kind.state.tx)
          IN  /\ SignersOf(sigs) = t_signed
              /\ \A i \in 1..Len(sigs) : SignedBytesOf(sigs[i]) = tx.kind.state.bytes
    /\ (Called("sign") /\ Pre.kind.tag = "Raw")
       => /\ tx.kind.tag = "Raw"
          /\ IsPrefix(SigsOf(Pre.kind.state.tx), SigsOf(tx.kind.state.tx))
          /\ Len(SigsOf(tx.kind.state.tx)) = Len(SigsOf(Pre.kind.state.tx)) + 1
    /\ (ExecutedFrozen /\ t_signed # <<>>)
       => /\ Len(t_wire) = 1
          /\ LET sent == SigsOf(t_wire[1].request)
             IN  /\ IsSuffix(SigsOf(Pre.kind.state.tx), sent)
                 /\ SignersOf(sent) =
                        (IF Pre.secret # None THEN <<Unwrap(Pre.secret)>> ELSE <<>>)
                        \o t_signed

C9_Witness ==
    /\ ExecutedFrozen
    /\ Pre.secret # None
    /\ t_signed = <<"key_a", "key_b", "key_a">>
    /\ Len(t_wire) = 1
    /\ SignersOf(SigsOf(t_wire[1].request)) = <<OperatorKey, "key_a", "key_b", "key_a">>

\* execute without an operator key sends the explicit signatures unchanged
C9_WitnessNoOperatorKey ==
    /\ ExecutedFrozen
    /\ Pre.secret = None
    /\ t_signed = <<"key_b", "key_a">>
    /\ Len(t_wire) = 1
    /\ SigsOf(t_wire[1].request) = SigsOf(Pre.kind.state.tx)

\* the operation kinds that create or mutate a file
FileKinds == {"fileCreate", "fileAppend"}

----------------------------------------------------------------------------
(* Freeze and mutation lock *)

\* C11: build on a Building transaction leaves it Frozen, with the bytes of
\* its body and no signatures, or ErrorLatched; build on a Frozen or
\* ErrorLatched transaction does not abort and changes nothing (bytes, body,
\* signatures and latched error are the same after the call), so build
\* followed by build yields the same state and the same bytes as one build.
C11_FreezeIdempotence ==
    /\ (Called("build") /\ Pre.kind.tag = "Builder")
       => /\ abort = None
          /\ tx.kind.tag \in {"Raw", "Err"}
          /\ tx.kind.tag = "Raw"
             => /\ tx.kind.state.bytes = WriteToBytes(tx.kind.state.tx.body)
                /\ SigsOf(tx.kind.state.tx) = <<>>
          /\ t_last.wire = <<>>
    /\ (Called("build") /\ Pre.kind.tag \in {"Raw", "Err"})
       => /\ abort = None
          /\ tx = Pre
          /\ t_last.wire = <<>>

C11_Witness ==
    /\ Called("build")
    /\ Pre.kind.tag = "Raw"
    /\ Len(SigsOf(Pre.kind.state.tx)) = 2
    /\ tx = Pre
    /\ abort = None

\* a build of an ErrorLatched transaction keeps the latched error
C11_WitnessErrorLatched ==
    /\ Called("build")
    /\ Pre.kind = KindErr(MissingField("operator"))
    /\ tx = Pre

\* the setters of the envelope fields and of the operation fields
SetterOps == {"memo", "operator", "node", "fee", "generate_record", "transfer"}

\* C12: on a Frozen transaction every call of memo, operator, node, fee,
\* generate_record or an operation-field setter is rejected (it aborts) or
\* has no effect; the transaction is still Frozen afterwards, with the same
\* bytes, body and signatures as before the call.
C12_MutationLock ==
    (t_last.op \in SetterOps /\ IsSome(t_last.pre) /\ Pre.kind.tag = "Raw")
    => /\ abort # None \/ tx = Pre
       /\ tx.kind.tag = "Raw"
       /\ tx.kind.state.bytes = Pre.kind.state.bytes
       /\ tx.kind.state.tx = Pre.kind.state.tx
       /\ t_last.wire = <<>>

C12_Witness ==
    /\ Called("memo")
    /\ Pre.kind.tag = "Raw"
    /\ abort = Some(PanicSigned)
    /\ tx = Pre

----------------------------------------------------------------------------
(* Execute *)

\* C13: one execute call on a Frozen transaction makes exactly one remote
\* call and leaves the transaction Executed, whatever the outcome.
C13_ExecuteSingleShot ==
    (Called("execute") /\ Pre.kind.tag = "Raw")
    => /\ Len(t_last.wire) = 1
       /\ tx.kind = KindEmpty

\* C13 for the executes that reach the dispatch: a routed operation kind and,
\* with an operator key, at least one explicit signature
C13_SingleShotWhenDispatched ==
    (ExecutedFrozen /\ (Pre.secret = None \/ SigsOf(Pre.kind.state.tx) # <<>>))
    => /\ abort = None
       /\ Len(t_last.wire) = 1
       /\ t_wire = t_last.wire
       /\ tx.kind = KindEmpty

C13_DispatchedWitness ==
    /\ ExecutedFrozen
    /\ Unwrap(t_last.arg).ok /\ Unwrap(t_last.arg).code = "Busy"
    /\ Len(t_wire) = 1
    /\ tx.kind = KindEmpty
    /\ t_last.ret = Err(PreCheck("Busy"))

\* the last call was an execute that sent its request and got a response
ExecuteAnswered ==
    /\ Called("execute")
    /\ Pre.kind.tag = "Raw"
    /\ t_last.wire # <<>>
    /\ Unwrap(t_last.arg).ok

\* C14: an execute whose request is answered with precheck Ok returns the
\* TransactionId stored in the frozen body that was sent (operator account
\* id and valid-start); answered with any other code c it fails with
\* PreCheck(c).
C14_ExecuteResult ==
    ExecuteAnswered
    => LET code == Unwrap(t_last.arg).code
           body == Pre.kind.state.tx.body
       IN  /\ t_last.wire[1].request.body.transactionID = body.transactionID
           /\ IF code = "Ok"
              THEN /\ t_last.ret.ok
                   /\ t_last.ret.val = body.transactionID
              ELSE t_last.ret = Err(PreCheck(code))

C14_Witness ==
    /\ ExecuteAnswered
    /\ Unwrap(t_last.arg).code = "Ok"
    /\ t_last.ret = Ok(TransactionIdNew(OperatorId, 100))
    /\ t_last.ret.val.transaction_valid_start = 95

C14_WitnessPreCheck ==
    /\ ExecuteAnswered
    /\ Unwrap(t_last.arg).code = "InsufficientFee"
    /\ t_last.ret = Err(PreCheck("InsufficientFee"))

\* the methods of a Transaction that change it or send it
TransactionOps ==
    {"memo", "operator", "node", "fee", "generate_record", "sign", "build", "execute"}

\* C15: on an Executed transaction every call of memo, operator, node, fee,
\* generate_record, sign, build or execute aborts; it makes no remote call,
\* returns nothing and leaves the transaction Executed and unchanged.
C15_ExecutedTerminal ==
    (t_last.op \in TransactionOps /\ IsSome(t_last.pre) /\ Pre.kind = KindEmpty)
    => /\ abort = Some(PanicExecuted)
       /\ t_last.wire = <<>>
       /\ IsNone(t_last.ret)
       /\ tx = Pre

C15_Witness ==
    /\ Called("execute")
    /\ Pre.kind = KindEmpty
    /\ abort = Some(PanicExecuted)
    /\ Len(t_wire) = 1

\* a setter call on an Executed transaction
C15_WitnessSetter ==
    /\ Called("node")
    /\ Pre.kind = KindEmpty
    /\ abort = Some(PanicExecuted)

\* C16: the body execute sends for a Delete-account transaction whose
\* transfer-account field is unset has that field set to the account of the
\* transaction's own TransactionId; a field that was set is sent as it was;
\* for every other kind the payload is sent as it was frozen; nothing else
\* of the body differs from the frozen body.
C16_DeleteTransferDefault ==
    (Called("execute") /\ Pre.kind.tag = "Raw" /\ t_last.wire # <<>>)
    => LET frozen == Pre.kind.state.tx.body
           sent == t_last.wire[1].request.body
       IN  /\ IF frozen.data.tag = "cryptoDelete" /\ IsNone(frozen.data.transferAccountID)
              THEN sent.data = [frozen.data EXCEPT !.transferAccountID =
                                    Some(frozen.transactionID.account_id)]
              ELSE sent.data = frozen.data
           /\ [sent EXCEPT !.data = frozen.data] = frozen

C16_Witness ==
    /\ Called("execute")
    /\ Pre.kind.tag = "Raw"
    /\ Pre.kind.state.tx.body.data.tag = "cryptoDelete"
    /\ IsNone(Pre.kind.state.tx.body.data.transferAccountID)
    /\ Len(t_last.wire) = 1
    /\ t_last.wire[1].rpc = "crypto_service.crypto_delete"
    /\ t_last.wire[1].request.body.data.transferAccountID = Some(OperatorId)

\* a transfer account that was set is sent unchanged
C16_WitnessSet ==
    /\ Called("execute")
    /\ Pre.kind.tag = "Raw"
    /\ Pre.kind.state.tx.body.data.transferAccountID = Some(OtherId)
    /\ Len(t_last.wire) = 1
    /\ t_last.wire[1].request.body.data.transferAccountID = Some(OtherId)

----------------------------------------------------------------------------
(* cost() and repeated calls on one Query *)

\* the current (or last) call on q is a cost()
CostCall == q_start.method = "cost"

\* the last response of the current call
LastResponse == q_recv[Len(q_recv)]

\* C17: a cost() call whose last response has precheck Ok or
\* InvalidTransaction returns the cost quoted in that response; one that ends
\* on any other code (Busy only once the retries are used up) fails with
\* PreCheck(code); cost() leaves the Query's payment as it was and every
\* request it sends carries the payment the Query had when the call began.
C17_CostClassification ==
    CostCall
    => /\ q.payment = q_start.q.payment
       /\ \A i \in 1..Len(q_sent) :
            q_sent[i].request.header.payment = q_start.q.payment
       /\ (Finished /\ q_recv # <<>> /\ LastResponse.ok)
          => IF LastResponse.code \in {"Ok", "InvalidTransaction"}
             THEN Returns(Ok(LastResponse.cost))
             ELSE Returns(Err(PreCheck(LastResponse.code)))
       /\ (q_recv # <<>> /\ LastResponse.ok
           /\ LastResponse.code \notin {"Ok", "InvalidTransaction", "Busy"})
          => Finished

C17_Witness ==
    /\ CostCall /\ Finished
    /\ Len(q_recv) = 2
    /\ q_recv[1].code = "Busy"
    /\ LastResponse.code = "InvalidTransaction"
    /\ LastResponse.cost = U64Max
    /\ Returns(Ok(U64Max))
    /\ IsNone(q.payment)

\* a code other than Ok, InvalidTransaction and Busy fails the call
C17_WitnessPreCheck ==
    /\ CostCall /\ Finished
    /\ LastResponse.code = "InsufficientFee"
    /\ Returns(Err(PreCheck("InsufficientFee")))

\* C18: every request sent by get() carries response type ANSWER_ONLY and
\* every request sent by cost() carries COST_ANSWER, whatever calls were made
\* on the Query before.
C18_ResponseTypePerCall ==
    \A i \in 1..Len(q_sent) :
        /\ GetCall => q_sent[i].request.header.responseType = "ANSWER_ONLY"
        /\ CostCall => q_sent[i].request.header.responseType = "COST_ANSWER"

\* C18 for the calls on a Query on which cost() has not been called before
C18_ResponseTypeBeforeCost ==
    \A i \in 1..Len(q_sent) :
        /\ (GetCall /\ q_start.q.kind = "ANSWER_ONLY")
           => q_sent[i].request.header.responseType = "ANSWER_ONLY"
        /\ CostCall => q_sent[i].request.header.responseType = "COST_ANSWER"

\* C19: the Busy responses a get() or cost() call tolerates and the sleeps it
\* makes do not depend on the calls made before on the Query: a call answered
\* Busy only is retried after each of its first five Busy responses, with the
\* sleeps 2, 4, ..., and gives up on the sixth.
C19_RetryStateLocal ==
    ((GetCall \/ CostCall) /\ q_recv # <<>> /\ AllBusy(q_recv))
    => LET n == Len(q_recv)
       IN  /\ n <= 6
           /\ n < 6 => q_pc = q_start.method /\ q_sleeps = LinearBackoff(n)
           /\ n = 6 => Returns(Err(PreCheck("Busy"))) /\ q_sleeps = LinearBackoff(5)

\* C19 for the first call on a Query (attempt = 0 when it begins)
C19_RetryStateFirstCall ==
    ((GetCall \/ CostCall) /\ q_start.q.attempt = 0
     /\ q_recv # <<>> /\ AllBusy(q_recv))
    => LET n == Len(q_recv)
       IN  /\ n <= 6
           /\ n < 6 => q_pc = q_start.method /\ q_sleeps = LinearBackoff(n)
           /\ n = 6 => Returns(Err(PreCheck("Busy"))) /\ q_sleeps = LinearBackoff(5)

----------------------------------------------------------------------------
(* payment() *)

\* the last payment() call on q: the transaction it was given, its result
PaymentCalled == t_last.op = "payment" /\ IsSome(t_last.pre)
PaymentGiven == Unwrap(t_last.pre)

\* the required fields of a Building transaction are set
RequiredFieldsSet(state) == state.id # None /\ state.node # None

\* p is the envelope of the transaction t: the frozen body and the explicit
\* signatures of a Frozen t, the body of the fields of a Building t with no
\* signature
IsEnvelopeOf(p, t) ==
    IF t.kind.tag = "Raw" THEN p = t.kind.state.tx
    ELSE /\ SigsOf(p) = <<>>
         /\ p.body.transactionID = Unwrap(t.kind.state.id)
         /\ p.body.nodeAccountID = Unwrap(t.kind.state.node)
         /\ p.body.transactionFee = t.kind.state.fee
         /\ p.body.data.tag = t.kind.state.inner.tag
         /\ TransfersOf(p) = t.kind.state.inner.transfers

\* the transaction given to the last payment() call could be frozen
PaymentFreezable ==
    \/ PaymentGiven.kind.tag = "Raw"
    \/ PaymentGiven.kind.tag = "Builder" /\ RequiredFieldsSet(PaymentGiven.kind.state)

\* C20: payment(t) with a Building t whose required fields are set, or a
\* Frozen t, returns Ok and stores the envelope of t (frozen body and the
\* explicit signatures made so far) as the Query's payment, and every request
\* sent afterwards carries exactly that payment; payment(t) with a t whose
\* freeze fails returns the freeze error and leaves the payment as it was.
C20_Payment ==
    PaymentCalled
    => /\ PaymentFreezable
          => /\ abort = None
             /\ t_last.ret = Ok("self")
             /\ IsSome(q.payment)
             /\ IsEnvelopeOf(Unwrap(q.payment), PaymentGiven)
             /\ \A i \in 1..Len(q_sent) : q_sent[i].request.header.payment = q.payment
       /\ (~PaymentFreezable /\ q_start.method = "payment")
          => /\ abort = None
             /\ ~t_last.ret.ok
             /\ t_last.ret = Err(MissingField("node"))
             /\ q = q_start.q

C20_Witness ==
    /\ PaymentCalled
    /\ PaymentGiven.kind.tag = "Raw"
    /\ SignersOf(SigsOf(PaymentGiven.kind.state.tx)) = <<"key_b", "key_a">>
    /\ GetCall /\ Finished
    /\ Len(q_sent) = 2
    /\ q_sent[2].request.header.payment = Some(PaymentGiven.kind.state.tx)
    /\ Returns(Ok("answer_1"))

\* a Building transaction is frozen by payment()
C20_WitnessBuilding ==
    /\ PaymentCalled
    /\ PaymentGiven.kind.tag = "Builder"
    /\ RequiredFieldsSet(PaymentGiven.kind.state)
    /\ q_start.method = "payment"
    /\ IsNone(q_start.q.payment)
    /\ IsSome(q.payment)
    /\ TransfersOf(Unwrap(q.payment)) = << <<NodeId, 1>>, <<OperatorId, 0 - 1>> >>

\* a failing freeze leaves the payment of an earlier payment() call in place
C20_WitnessFreezeFails ==
    /\ PaymentCalled
    /\ ~PaymentFreezable
    /\ q_start.method = "payment"
    /\ IsSome(q_start.q.payment)
    /\ q.payment = q_start.q.payment
    /\ Returns(Err(MissingField("node")))

----------------------------------------------------------------------------
(* Text forms of the ids *)

\* the last conversion parsed the text a value was formatted to
ParsedFormatted(op) == conv.op = op /\ IsSome(conv.of)

\* the last conversion parsed a text joined from components
ParsedText == conv.op = "id.parse_text"
PartsParsed == Unwrap(conv.of).parts

\* C23: parsing the text an entity id with non-negative components was
\* formatted to gives that id, and the text is "shard:realm:num"; parsing the
\* text a TransactionId was formatted to gives that TransactionId, and the
\* text is "shard:realm:num@seconds.nanos".
C23_TextRoundTrip ==
    /\ ParsedFormatted("id.parse") => conv.out = Ok(Unwrap(conv.of))
    /\ ParsedFormatted("transaction_id.parse") => conv.out = Ok(Unwrap(conv.of))
    /\ (conv.op = "id.to_string" /\ conv.in = AccountIdNew(7, 5, 1001))
       => conv.out = <<"7", ":", "5", ":", "1", "0", "0", "1">>
    /\ (conv.op = "transaction_id.to_string"
        /\ conv.in = [account_id |-> AccountIdNew(7, 5, 1001),
                      transaction_valid_start |-> TimestampNew(1234567, 10001)])
       => conv.out = <<"7", ":", "5", ":", "1", "0", "0", "1", "@",
                       "1", "2", "3", "4", "5", "6", "7", ".",
                       "1", "0", "0", "0", "1">>

C23_Witness ==
    /\ ParsedFormatted("transaction_id.parse")
    /\ conv.in = <<"7", ":", "5", ":", "1", "0", "0", "1", "@",
                   "1", "2", "3", "4", "5", "6", "7", ".",
                   "1", "0", "0", "0", "1">>
    /\ conv.out = Ok([account_id |-> AccountIdNew(7, 5, 1001),
                      transaction_valid_start |-> TimestampNew(1234567, 10001)])

\* an entity id parsed back from its text
C23_WitnessEntityId ==
    /\ ParsedFormatted("id.parse")
    /\ conv.in = <<"1", "0", ":", "0", ":", "1", "0", "0", "1">>
    /\ conv.out = Ok(AccountIdNew(10, 0, 1001))

\* C24: a text of three integer components parses to the id of those
\* integers whether its separators are ':' or '.'; a text with fewer than
\* three components, or with a component that is not an integer, gives a
\* parse error and never an id.
C24_EntityIdParsing ==
    ParsedText
    => IF \/ Len(PartsParsed) < 3
          \/ \E i \in 1..Len(PartsParsed) : IsNone(PartsParsed[i].int)
       THEN ~conv.out.ok
       ELSE Len(PartsParsed) = 3
            => conv.out = Ok(AccountIdNew(Unwrap(PartsParsed[1].int),
                                          Unwrap(PartsParsed[2].int),
                                          Unwrap(PartsParsed[3].int)))

\* C24 for the texts of at most three components
C24_EntityIdParsingThreeParts ==
    (ParsedText /\ Len(PartsParsed) <= 3)
    => IF \/ Len(PartsParsed) < 3
          \/ \E i \in 1..Len(PartsParsed) : IsNone(PartsParsed[i].int)
       THEN ~conv.out.ok
       ELSE conv.out = Ok(AccountIdNew(Unwrap(PartsParsed[1].int),
                                       Unwrap(PartsParsed[2].int),
                                       Unwrap(PartsParsed[3].int)))

C24_ThreePartsWitness ==
    /\ ParsedText
    /\ conv.in = <<"7", ".", "1", "0", ".", "-", "3">>
    /\ conv.out = Ok(AccountIdNew(7, 10, 0 - 3))

----------------------------------------------------------------------------
(* Canonical bytes *)

\* the last call was an execute of a Frozen transaction that sent its request
ExecuteSent == Called("execute") /\ Pre.kind.tag = "Raw" /\ t_last.wire # <<>>

\* C26: the bytes of a Frozen transaction are the serialization of its body
\* alone; sign and build on a Frozen transaction leave them as they were;
\* every explicit signature held, and every signature in the list execute
\* sends (the operator's included), was computed over exactly those bytes.
C26_OneCanonicalByteString ==
    /\ tx.kind.tag = "Raw"
       => /\ tx.kind.state.bytes = WriteToBytes(tx.kind.state.tx.body)
          /\ \A i \in 1..Len(SigsOf(tx.kind.state.tx)) :
                SignedBytesOf(SigsOf(tx.kind.state.tx)[i]) = tx.kind.state.bytes
    /\ (t_last.op \in {"sign", "build"} /\ IsSome(t_last.pre) /\ Pre.kind.tag = "Raw")
       => /\ tx.kind.tag = "Raw"
          /\ tx.kind.state.bytes = Pre.kind.state.bytes
    /\ ExecuteSent
       => LET sent == SigsOf(t_last.wire[1].request)
          IN  \A i \in 1..Len(sent) : SignedBytesOf(sent[i]) = Pre.kind.state.bytes

C26_Witness ==
    /\ ExecuteSent
    /\ Pre.secret # None
    /\ Len(SigsOf(t_last.wire[1].request)) = 3
    /\ \A i \in 1..3 :
            SignedBytesOf(SigsOf(t_last.wire[1].request)[i])
                = WriteToBytes(Pre.kind.state.tx.body)

\* C27: for every operation kind the body execute hands to the transport is
\* the frozen body, and it serializes to exactly the frozen bytes the
\* signatures were computed over.
C27_SignedBodyIsSentBody ==
    ExecuteSent
    => /\ t_last.wire[1].request.body = Pre.kind.state.tx.body
       /\ WriteToBytes(t_last.wire[1].request.body) = Pre.kind.state.bytes

\* C27 for every execute but the one of a Delete-account transaction whose
\* transfer-account field is unset
C27_SignedBodyIsSentBodyUnlessDefaulted ==
    ( /\ ExecuteSent
      /\ ~ ( /\ Pre.kind.state.tx.body.data.tag = "cryptoDelete"
             /\ IsNone(Pre.kind.state.tx.body.data.transferAccountID) ) )
    => /\ t_last.wire[1].request.body = Pre.kind.state.tx.body
       /\ WriteToBytes(t_last.wire[1].request.body) = Pre.kind.state.bytes

C27_UnlessDefaultedWitness ==
    /\ ExecuteSent
    /\ Pre.kind.state.tx.body.data.tag = "cryptoDelete"
    /\ Pre.kind.state.tx.body.data.transferAccountID = Some(OtherId)
    /\ WriteToBytes(t_last.wire[1].request.body) = Pre.kind.state.bytes

----------------------------------------------------------------------------
(* Payment negotiation and the attempt counter *)

\* the current get() began without a payment and has attached one
PaymentSynthesized == GetCall /\ IsNone(q_start.q.payment) /\ IsSome(q.payment)

\* the amount credited to the node by the attached payment
PaymentAmount == TransfersOf(Unwrap(q.payment))[1][2]

\* C28: a get() that attaches a synthesized payment has sent a COST_ANSWER
\* request after the InvalidTransaction response, and the amount of the
\* payment is the cost quoted in the response to that request.
C28_FeeDerivedByCost ==
    PaymentSynthesized
    => \E i \in 2..Len(q_recv) :
            /\ q_recv[i - 1].ok /\ q_recv[i - 1].code = "InvalidTransaction"
            /\ q_sent[i].request.header.responseType = "COST_ANSWER"
            /\ q_recv[i].ok
            /\ PaymentAmount = q_recv[i].cost

\* what get() does: the amount is the cost quoted in the InvalidTransaction
\* response to the get request itself (as a signed word); no request is sent
\* between that response and the attachment
C28_FeeReadFromGetResponse ==
    PaymentSynthesized
    => \E i \in 1..Len(q_recv) :
            /\ q_recv[i].ok /\ q_recv[i].code = "InvalidTransaction"
            /\ \A j \in 1..Len(q_recv) :
                    (q_recv[j].ok /\ q_recv[j].code = "InvalidTransaction") => j >= i
            /\ PaymentAmount = AsI64(q_recv[i].cost)
            /\ IsNone(q_sent[i].request.header.payment)
            /\ q_sent[i].request.header.responseType = q_start.q.kind
            /\ \A j \in (i + 1)..Len(q_sent) :
                    q_sent[j].request.header.payment = q.payment

C28_FeeReadWitness ==
    /\ PaymentSynthesized
    /\ q_start.q.kind = "ANSWER_ONLY"
    /\ Len(q_sent) = 2
    /\ q_recv[1].code = "InvalidTransaction" /\ q_recv[1].cost = I64Max
    /\ PaymentAmount = I64Max
    /\ q_sent[2].request.header.responseType = "ANSWER_ONLY"

\* a payment was attached before the i-th response of the current get()
AttachedBefore(i) ==
    \/ IsSome(q_start.q.payment)
    \/ \E j \in 1..(i - 1) : q_recv[j].ok /\ q_recv[j].code = "InvalidTransaction"

\* the 1-second pauses of the current call: one per payment synthesized
PaymentPauses == {i \in 1..Len(q_sleeps) : q_sleeps[i] = 1}

\* C29: get() and cost() never replace or remove a payment that is attached;
\* a get() synthesizes at most one payment, and none when it began with one;
\* an InvalidTransaction response to a get() with a payment attached ends
\* the call with PreCheck(InvalidTransaction): no sleep and no request
\* follow it.
C29_PaymentAttachedAtMostOnce ==
    (GetCall \/ CostCall)
    => /\ IsSome(q_start.q.payment) => q.payment = q_start.q.payment
       /\ Cardinality(PaymentPauses)
            <= (IF GetCall /\ IsNone(q_start.q.payment) THEN 1 ELSE 0)
       /\ \A i \in 1..Len(q_recv) :
            ( /\ GetCall
              /\ q_recv[i].ok /\ q_recv[i].code = "InvalidTransaction"
              /\ AttachedBefore(i) )
            => /\ i = Len(q_recv)
               /\ Len(q_sent) = i
               /\ Len(q_sleeps) = i - 1
               /\ Returns(Err(PreCheck("InvalidTransaction")))

C29_Witness ==
    /\ PaymentCalled
    /\ GetCall /\ Finished
    /\ IsSome(q_start.q.payment)
    /\ Len(q_recv) = 1
    /\ q_recv[1].code = "InvalidTransaction"
    /\ q_sleeps = <<>>
    /\ q.payment = q_start.q.payment
    /\ Returns(Err(PreCheck("InvalidTransaction")))

\* a second InvalidTransaction after a synthesized payment ends the call
C29_WitnessSynthesized ==
    /\ PaymentSynthesized /\ Finished
    /\ Len(q_recv) = 2
    /\ q_recv[1].code = "InvalidTransaction" /\ q_recv[2].code = "InvalidTransaction"
    /\ q_sleeps = <<1>>
    /\ Returns(Err(PreCheck("InvalidTransaction")))

\* the Busy responses of the current call that were retried
RetriedBusy ==
    {i \in 1..Len(q_recv) :
        /\ q_recv[i].ok /\ q_recv[i].code = "Busy"
        /\ i < Len(q_recv) \/ q_pc # "idle"}

\* C30: in every state of a Query 0 <= attempt <= 5 and the response type is
\* ANSWER_ONLY or COST_ANSWER; attempt is 0 before the first call, never
\* decreases, and grows during a call by exactly one for each Busy response
\* that is retried.
C30_AttemptInvariant ==
    /\ q.attempt \in 0..5
    /\ q.kind \in {"ANSWER_ONLY", "COST_ANSWER"}
    /\ q_calls = 0 => q.attempt = 0
    /\ q_start.q.attempt <= q.attempt
    /\ (GetCall \/ CostCall)
       => q.attempt = q_start.q.attempt + Cardinality(RetriedBusy)

C30_Witness ==
    /\ CostCall
    /\ q_start.q.attempt = 3
    /\ q.attempt = 5
    /\ Len(q_recv) = 3 /\ AllBusy(q_recv)
    /\ Returns(Err(PreCheck("Busy")))

----------------------------------------------------------------------------
(* Transport failures and routing *)

\* the last call was an execute, on a Building or a Frozen transaction
ExecuteCalled == Called("execute") /\ Pre.kind.tag \in {"Builder", "Raw"}

\* the operation variant of the transaction execute was called on
ExecutedTag ==
    IF Pre.kind.tag = "Builder" THEN Pre.kind.state.inner.tag
    ELSE Pre.kind.state.tx.body.data.tag

\* the Busy responses among the first n of the current call
BusyBefore(n) == {j \in 1..n : q_recv[j].ok /\ q_recv[j].code = "Busy"}

\* C21: a transport failure on a request sent inside get(), cost() or
\* execute ends the call with that failure: the failed request is the last
\* one sent, no sleep follows it, the attempt counter counts only the Busy
\* responses before it, and the payment is the one the failed request carried.
C21_TransportFailureNotRetried ==
    /\ (GetCall \/ CostCall)
       => \A i \in 1..Len(q_recv) :
            ~q_recv[i].ok
            => /\ i = Len(q_recv)
               /\ Len(q_sent) = i
               /\ Returns(Err(TransportError))
               /\ Len(q_sleeps) = i - 1
               /\ q.attempt = q_start.q.attempt + Cardinality(BusyBefore(i - 1))
               /\ q.payment = q_sent[i].request.header.payment
    /\ (ExecuteCalled /\ t_last.wire # <<>> /\ ~Unwrap(t_last.arg).ok)
       => /\ Len(t_last.wire) = 1
          /\ abort = None
          /\ t_last.ret = Err(TransportError)

\* get() fails in transport on the retry that follows two Busy responses
C21_Witness ==
    /\ GetCall
    /\ Len(q_recv) = 3
    /\ q_recv[1].code = "Busy" /\ q_recv[2].code = "Busy" /\ ~q_recv[3].ok
    /\ q.attempt = q_start.q.attempt + 2
    /\ Returns(Err(TransportError))

C21_WitnessExecute ==
    /\ ExecuteCalled
    /\ t_last.wire # <<>>
    /\ ~Unwrap(t_last.arg).ok
    /\ t_last.ret = Err(TransportError)

C21_WitnessNegotiated ==
    /\ PaymentSynthesized
    /\ Len(q_recv) = 2
    /\ ~q_recv[2].ok
    /\ q_sleeps = <<1>>
    /\ Returns(Err(TransportError))

\* the table of remote operations: one entry per routed variant
RemoteOperations ==
    {<<"cryptoCreateAccount", "crypto_service.create_account">>,
     <<"cryptoTransfer", "crypto_service.crypto_transfer">>,
     <<"cryptoDeleteClaim", "crypto_service.delete_claim">>,
     <<"cryptoDelete", "crypto_service.crypto_delete">>,
     <<"fileCreate", "file_service.create_file">>,
     <<"fileAppend", "file_service.append_content">>,
     <<"contractCreateInstance", "contract_service.create_contract">>,
     <<"cryptogetAccountBalance", "crypto_service.crypto_get_balance">>,
     <<"transactionGetReceipt", "crypto_service.get_transaction_receipts">>,
     <<"cryptoGetInfo", "crypto_service.get_account_info">>,
     <<"fileGetInfo", "file_service.get_file_info">>,
     <<"fileGetContents", "file_service.get_file_content">>,
     <<"transactionGetRecord", "crypto_service.get_tx_record_by_tx_id">>,
     <<"cryptoGetAccountRecords", "crypto_service.get_account_records">>,
     <<"contractGetInfo", "contract_service.get_contract_info">>,
     <<"contractGetBytecode", "contract_service.contract_get_bytecode">>}

RoutedTags == {e[1] : e \in RemoteOperations}

\* C22: every request sent by execute or by get()/cost() invokes one remote
\* operation, the table entry of the variant of the value the call was made
\* on; a call on a variant without a table entry sends nothing, and aborts
\* when it reaches the routing (a Frozen transaction, any query).
C22_Dispatch ==
    /\ ExecuteCalled
       => /\ Len(t_last.wire) <= 1
          /\ \A i \in 1..Len(t_last.wire) :
                /\ t_last.wire[i].request.body.data.tag = ExecutedTag
                /\ <<ExecutedTag, t_last.wire[i].rpc>> \in RemoteOperations
          /\ ExecutedTag \notin RoutedTags
             => /\ t_last.wire = <<>>
                /\ Pre.kind.tag = "Raw" => IsSome(abort)
                /\ IsSome(abort) \/ ~t_last.ret.ok
    /\ (GetCall \/ CostCall)
       => /\ Len(q_sent) = Len(q_recv)
          /\ \A i \in 1..Len(q_sent) :
                /\ q_sent[i].request.tag = q.inner
                /\ <<q.inner, q_sent[i].rpc>> \in RemoteOperations
          /\ q.inner \notin RoutedTags => q_sent = <<>> /\ IsSome(abort)

C22_Witness ==
    /\ ExecuteCalled
    /\ ExecutedTag = "fileAppend"
    /\ Len(t_last.wire) = 1
    /\ t_last.wire[1].rpc = "file_service.append_content"

C22_WitnessQuery ==
    /\ GetCall
    /\ q.inner = "cryptogetAccountBalance"
    /\ Len(q_sent) = 2
    /\ q_sent[2].rpc = "crypto_service.crypto_get_balance"

C22_WitnessUnrouted ==
    /\ ExecuteCalled
    /\ Pre.kind.tag = "Raw"
    /\ ExecutedTag = "cryptoUpdateAccount"
    /\ t_last.wire = <<>>
    /\ abort = Some(PanicUnimplemented)

C22_WitnessUnroutedQuery ==
    /\ CostCall
    /\ q.inner = "cryptoGetClaim"
    /\ q_sent = <<>>
    /\ abort = Some(PanicUnreachable)

----------------------------------------------------------------------------
(* Values derived from one Client *)

\* the step is an operation on the Transaction
TransactionStep ==
    \/ tx' # tx
    \/ t_last'.op # t_last.op
    \/ t_last'.arg # t_last.arg
    \/ t_last'.pre # t_last.pre
    \/ t_signed' # t_signed

\* the step is an operation on the Query
QueryStep ==
    \/ q' # q
    \/ q_calls' # q_calls
    \/ q_pc' # q_pc
    \/ q_recv' # q_recv

\* the Transaction afterwards and the value returned are those of the
\* operation applied to the Transaction alone
TransactionStepAlone ==
    LET op == t_last'.op
        arg == t_last'.arg
        o == CASE op = "build" -> Build(tx)
               [] op = "sign" -> Sign(tx, Unwrap(arg))
               [] op = "execute" -> Execute(tx, Unwrap(arg))
    IN  /\ op \in {"build", "sign", "execute"}
        /\ t_last'.pre = Some(tx)
        /\ tx' = o.tx
        /\ t_last'.ret = o.ret
        /\ t_last'.wire = o.wire
        /\ abort' = o.panic

\* the Query afterwards and the value returned are those of get() or cost()
\* applied to the Query alone, against the response received
QueryStepAlone ==
    /\ q_recv' # <<>>
    /\ LET resp == q_recv'[Len(q_recv')]
           o == IF q_pc' = "get" \/ (q_pc' = "idle" /\ q_start'.method = "get")
                THEN Get(q, resp, CHOOSE now \in Nows : TRUE, overflow_checks)
                ELSE Cost(q, resp)
       IN  /\ q' = o.q
           /\ abort' = o.panic
           /\ q_pc' = "idle" /\ IsNone(abort')
              => q_result' = Some([method |-> q_start'.method, ret |-> o.ret])

----------------------------------------------------------------------------
(* Freezing and signing *)

\* the last call was a build on a Building transaction
BuiltNow == Called("build") /\ Pre.kind.tag = "Builder"

\* C34: build of a Building transaction latches MissingField("operator")
\* whenever the operator id is unset, the node id set or not, latches
\* MissingField("node") only when the operator id is set and the node id is
\* not, and freezes the transaction when both are set.
C34_RequiredFieldOrder ==
    BuiltNow
    => /\ abort = None
       /\ IsNone(Pre.kind.state.id)
          => tx.kind = KindErr(MissingField("operator"))
       /\ (IsSome(Pre.kind.state.id) /\ IsNone(Pre.kind.state.node))
          => tx.kind = KindErr(MissingField("node"))
       /\ tx.kind = KindErr(MissingField("node"))
          => (IsSome(Pre.kind.state.id) /\ IsNone(Pre.kind.state.node))
       /\ (IsSome(Pre.kind.state.id) /\ IsSome(Pre.kind.state.node))
          => tx.kind.tag = "Raw"

\* operator id and node id both missing
C34_Witness ==
    /\ BuiltNow
    /\ IsNone(Pre.kind.state.id) /\ IsNone(Pre.kind.state.node)
    /\ tx.kind = KindErr(MissingField("operator"))

C34_WitnessNode ==
    /\ BuiltNow
    /\ IsSome(Pre.kind.state.id) /\ IsNone(Pre.kind.state.node)
    /\ tx.kind = KindErr(MissingField("node"))

C34_WitnessFrozen ==
    /\ BuiltNow
    /\ IsSome(Pre.kind.state.id) /\ IsSome(Pre.kind.state.node)
    /\ tx.kind.tag = "Raw"

\* the key of the last sign call
SignKey == Unwrap(t_last.arg)

\* C35: sign on a Building transaction leaves it Frozen with exactly one
\* signature, made over the frozen bytes, or ErrorLatched by the freeze; sign
\* on a Frozen transaction appends exactly one entry and leaves body and
\* bytes as they were; sign on an ErrorLatched transaction changes nothing.
C35_SignAndState ==
    Called("sign")
    => /\ Pre.kind.tag = "Builder"
          => /\ abort = None
             /\ tx.kind.tag \in {"Raw", "Err"}
             /\ tx.kind.tag = "Raw"
                => /\ RequiredFieldsSet(Pre.kind.state)
                   /\ tx.kind.state.bytes = WriteToBytes(tx.kind.state.tx.body)
                   /\ Len(SigsOf(tx.kind.state.tx)) = 1
                   /\ SignerOf(SigsOf(tx.kind.state.tx)[1]) = SignKey
                   /\ SignedBytesOf(SigsOf(tx.kind.state.tx)[1]) = tx.kind.state.bytes
             /\ tx.kind.tag = "Err"
                => /\ ~RequiredFieldsSet(Pre.kind.state)
                   /\ tx.kind.error \in {MissingField("operator"), MissingField("node")}
       /\ Pre.kind.tag = "Raw"
          => /\ abort = None
             /\ tx.kind.tag = "Raw"
             /\ tx.kind.state.bytes = Pre.kind.state.bytes
             /\ tx.kind.state.tx.body = Pre.kind.state.tx.body
             /\ Len(SigsOf(tx.kind.state.tx)) = Len(SigsOf(Pre.kind.state.tx)) + 1
             /\ IsPrefix(SigsOf(Pre.kind.state.tx), SigsOf(tx.kind.state.tx))
             /\ SignerOf(SigsOf(tx.kind.state.tx)[Len(SigsOf(tx.kind.state.tx))]) = SignKey
       /\ Pre.kind.tag = "Err"
          => /\ abort = None
             /\ tx = Pre

C35_Witness ==
    /\ Called("sign")
    /\ Pre.kind.tag = "Builder"
    /\ tx.kind.tag = "Raw"
    /\ SignersOf(SigsOf(tx.kind.state.tx)) = <<"key_a">>

C35_WitnessFrozen ==
    /\ Called("sign")
    /\ Pre.kind.tag = "Raw"
    /\ SignersOf(SigsOf(Pre.kind.state.tx)) = <<"key_a">>
    /\ SignersOf(SigsOf(tx.kind.state.tx)) = <<"key_a", "key_b">>

C35_WitnessErrorLatched ==
    /\ Called("sign")
    /\ Pre.kind = KindErr(MissingField("operator"))
    /\ tx = Pre

----------------------------------------------------------------------------
(* Termination, backoff and terminal codes of the negotiation *)

\* one call sends the first request, one per Busy retry, and for get() one
\* more with the synthesized payment
RequestsBounded ==
    /\ GetCall => Len(q_sent) <= 7
    /\ CostCall => Len(q_sent) <= 6
    /\ Len(q_recv) <= Len(q_sent)

C31_WitnessCost ==
    /\ CostCall /\ Finished
    /\ Len(q_sent) = 6
    /\ AllBusy(q_recv)

\* the first call on the Query was answered Busy k times and then Ok or
\* InvalidTransaction, and that answer has been handled
BusyThenQuoted(k) ==
    /\ GetCall \/ CostCall
    /\ q_calls = 1
    /\ Len(q_recv) = k + 1
    /\ AllBusy(SubSeq(q_recv, 1, k))
    /\ q_recv[k + 1].ok
    /\ q_recv[k + 1].code \in {"Ok", "InvalidTransaction"}

\* the first call on the Query was answered Busy six times
BusyExhausted ==
    /\ GetCall \/ CostCall
    /\ q_calls = 1
    /\ Len(q_recv) = 6
    /\ AllBusy(q_recv)

C32_WitnessGetNegotiates ==
    /\ BusyThenQuoted(4)
    /\ GetCall
    /\ q_recv[5].code = "InvalidTransaction"
    /\ q_sleeps = <<2, 4, 6, 8, 1>>
    /\ q_pc = "get"

C32_WitnessExhausted ==
    /\ BusyExhausted
    /\ CostCall
    /\ Returns(Err(PreCheck("Busy")))

\* the i-th response of the current get() ended it at once: nothing was sent
\* or slept after it, attempt counts the Busy responses before it, and the
\* payment is the one the request carried
EndedAtOnce(i) ==
    /\ i = Len(q_recv)
    /\ Len(q_sent) = i
    /\ Len(q_sleeps) = i - 1
    /\ q_pc = "idle"
    /\ q.attempt = q_start.q.attempt + Cardinality(BusyBefore(i - 1))
    /\ q.payment = q_sent[i].request.header.payment

\* C33: a response to get() with a code other than Ok, Busy and
\* InvalidTransaction ends the call at once with PreCheck of that code; an
\* Ok response ends it at once with the answer.
C33_TerminalCodes ==
    GetCall
    => \A i \in 1..Len(q_recv) :
        /\ (q_recv[i].ok /\ q_recv[i].code \notin {"Ok", "Busy", "InvalidTransaction"})
           => /\ EndedAtOnce(i)
              /\ Returns(Err(PreCheck(q_recv[i].code)))
        /\ (q_recv[i].ok /\ q_recv[i].code = "Ok")
           => /\ EndedAtOnce(i)
              /\ Returns(Ok(q_recv[i].answer))

C33_Witness ==
    /\ GetCall
    /\ Len(q_recv) = 3
    /\ q_recv[1].code = "Busy" /\ q_recv[2].code = "Busy"
    /\ q_recv[3].code = "InsufficientFee"
    /\ q_sleeps = <<2, 4>>
    /\ q.attempt = q_start.q.attempt + 2
    /\ Returns(Err(PreCheck("InsufficientFee")))

C33_WitnessOk ==
    /\ GetCall
    /\ Len(q_recv) = 1
    /\ q_sleeps = <<>>
    /\ Returns(Ok("answer_2"))

\* the first response of the current get() that asks for a payment, on a
\* Query with the defaults to make one
AsksPayment(i) ==
    /\ GetCall
    /\ ClientComplete(q_start.q)
    /\ q_recv[i].ok /\ q_recv[i].code = "InvalidTransaction"
    /\ IsNone(q_sent[i].request.header.payment)

\* the payment attached moves c to the node and c from the operator
Balanced(c) ==
    /\ IsNone(abort)
    /\ IsSome(q.payment)
    /\ LET a == TransfersOf(Unwrap(q.payment))
       IN  /\ Len(a) = 2
           /\ a[1][2] = c
           /\ a[1][2] >= 0
           /\ a[2][2] = 0 - c
           /\ a[1][2] + a[2][2] = 0

\* C37: for every cost c the server quotes, the synthesized payment credits
\* the node with c >= 0 and debits the operator with c, the two amounts sum
\* to zero, and the conversion to the signed amount neither wraps nor aborts.
C37_PaymentBalanced ==
    \A i \in 1..Len(q_recv) : AsksPayment(i) => Balanced(q_recv[i].cost)

\* C37 for the costs that fit the signed word (c <= i64::MAX)
C37_PaymentBalancedSignedRange ==
    \A i \in 1..Len(q_recv) :
        (AsksPayment(i) /\ q_recv[i].cost <= I64Max) => Balanced(q_recv[i].cost)

C37_SignedRangeWitness ==
    /\ Len(q_recv) = 1
    /\ AsksPayment(1)
    /\ q_recv[1].cost = I64Max
    /\ Balanced(I64Max)

\* what the wrapping conversion gives for the largest cost
C37_WrappedWitness ==
    /\ Len(q_recv) = 1
    /\ AsksPayment(1)
    /\ q_recv[1].cost = U64Max
    /\ TransfersOf(Unwrap(q.payment))[1][2] = 0 - 1
    /\ TransfersOf(Unwrap(q.payment))[2][2] = 1

----------------------------------------------------------------------------
(* Consumed transactions *)

\* a call on the transaction that payment() was given before
UsedAfterPayment ==
    /\ t_last.op \in {"build", "sign", "execute"}
    /\ IsSome(t_last.pre)

\* C36: after payment(tx) has returned, with success or with the latched
\* error, tx is Executed; a later build, sign or execute on it aborts with
\* "transaction already executed", and execute never sends it.
C36_PaymentConsumes ==
    /\ (PaymentCalled /\ IsNone(abort)) => tx.kind = KindEmpty
    /\ UsedAfterPayment
       => /\ Pre.kind = KindEmpty
          /\ abort = Some(PanicExecuted)
          /\ tx.kind = KindEmpty
          /\ t_last.wire = <<>>
    /\ t_wire = <<>>

\* attached as a payment, then executed: the execute aborts
C36_Witness ==
    /\ UsedAfterPayment
    /\ t_last.op = "execute"
    /\ IsSome(q.payment)
    /\ abort = Some(PanicExecuted)
    /\ t_wire = <<>>

\* payment() returned the latched error and consumed the transaction
C36_WitnessLatched ==
    /\ PaymentCalled
    /\ Returns(Err(MissingField("node")))
    /\ tx.kind = KindEmpty

\* the last call was take_raw on a Building transaction
TookRawBuilding == Called("take_raw") /\ Pre.kind.tag = "Builder"

\* C38: take_raw on a Building transaction freezes it and returns what
\* take_raw returns after an explicit build: the raw envelope, or the freeze
\* error; it does not abort.
C38_TakeRawFreezes ==
    TookRawBuilding
    => /\ IsNone(abort)
       /\ t_last.ret = TakeRaw(Build(Pre).tx).ret

\* what take_raw does: on a Building transaction it aborts, leaving it
\* Executed; on a Frozen or ErrorLatched one it hands out the envelope or
\* the error
C38_TakeRawAbortsOnBuilding ==
    Called("take_raw")
    => /\ tx.kind = KindEmpty
       /\ Pre.kind.tag = "Builder" => abort = Some(PanicExecuted)
       /\ Pre.kind.tag = "Raw"
          => IsNone(abort) /\ t_last.ret = Ok(Pre.kind.state)
       /\ Pre.kind.tag = "Err"
          => IsNone(abort) /\ t_last.ret = Err(Pre.kind.error)

C38_AbortsWitness ==
    /\ TookRawBuilding
    /\ RequiredFieldsSet(Pre.kind.state)
    /\ abort = Some(PanicExecuted)

C38_AfterBuildWitness ==
    /\ Called("take_raw")
    /\ Pre.kind.tag = "Raw"
    /\ t_signed = <<>>
    /\ t_last.ret = Ok(Pre.kind.state)

====
